---- MODULE Spec2Model ----
(***************************************************************************)
(* Model of the load engine of cloudnative-observability-app               *)
(* (package load: Run, validateConfig, shouldError, maybeSleep and the     *)
(* CPU / MEM / IO workers).                                                *)
(*                                                                         *)
(* Units.  time.Duration values are counted in milliseconds.  A Go float64 *)
(* is a record [nan, v]: either NaN or the rational v / RateDen.           *)
(***************************************************************************)
EXTENDS Integers, Naturals, Sequences, FiniteSets, TLC

\* ------------------------------------------------------------------ bounds
\* runtime.NumCPU() of the machine the process runs on.
NumCPU == 1
\* float64 values are the multiples of 1/RateDen in a small range, and NaN.
RateDen == 2
\* Largest repeat of a server-streaming request.
MaxRepeat == 2
\* Largest number of requests a peer sends on one stream.
MaxItems == 2
\* Calls that go through the metrics interceptors at the same time.
MaxCalls == 2

\* --------------------------------------------------------------- float64
F(n) == [nan |-> FALSE, v |-> n]
NaN == [nan |-> TRUE, v |-> 0]
\* IEEE-754 comparisons: every ordered comparison with NaN is false.
FLt(a, b) == ~a.nan /\ ~b.nan /\ a.v < b.v
FLe(a, b) == ~a.nan /\ ~b.nan /\ a.v <= b.v
FGt(a, b) == FLt(b, a)
FGe(a, b) == FLe(b, a)
FZero == F(0)
FOne == F(RateDen)

\* ------------------------------------------------------------ package load
ModeCPU == "cpu"
ModeMem == "mem"
ModeCPUMem == "cpu-mem"
ModeIO == "io"
KnownModes == {ModeCPU, ModeMem, ModeCPUMem, ModeIO}

Second == 1000

\* DefaultLimits
DefaultLimits ==
  [MaxDuration |-> 60 * Second, MaxAllocMB |-> 512, MaxParallelism |-> NumCPU * 4]

Nil == "nil"
ErrInvalidMode == "load: invalid mode"
ErrDurationTooLarge == "load:duration exceeds max "
ErrAllocTooLarge == "load: alloc_mb exceeds max"
ErrParallelismTooHigh == "load: parallelism exceeds max"
ErrInjected == "load: injected error"
ErrDuration == "load: duration must be > 0"
ErrLatency == "load: latency must be >= 0"
ErrErrorRate == "load: error_rate must be between 0 and 1"
ErrParallelismCPU == "load: parallelism must be > 0 for cpu mode"
ErrAllocMem == "load: alloc_mb must be > 0 for mem mode"
ErrParallelismCPUMem == "load: parallelism must be > 0 for cpu-mem mode"
ErrAllocCPUMem == "load: alloc_mb must be > 0 for cpu-mem mode"
ErrIOBytes == "load: io_bytes must be > 0 for io mode"

\* The mode switch of validateConfig.
modeCheck(cfg) ==
  CASE cfg.Mode = ModeCPU ->
         IF cfg.Parallelism <= 0 THEN ErrParallelismCPU ELSE Nil
    [] cfg.Mode = ModeMem ->
         IF cfg.AllocMB <= 0 THEN ErrAllocMem ELSE Nil
    [] cfg.Mode = ModeCPUMem ->
         IF cfg.Parallelism <= 0 THEN ErrParallelismCPUMem
         ELSE IF cfg.AllocMB <= 0 THEN ErrAllocCPUMem ELSE Nil
    [] cfg.Mode = ModeIO ->
         IF cfg.IOBytes <= 0 THEN ErrIOBytes ELSE Nil
    [] OTHER -> ErrInvalidMode

\* The upper-limit guards at the end of validateConfig.
\* limitGuard with a zero limit taken as a limit of zero.
limitGuard_zeroIsLimit(cfg, limits) ==
  IF limits.MaxAllocMB >= 0 /\ cfg.AllocMB > limits.MaxAllocMB THEN ErrAllocTooLarge
  ELSE IF limits.MaxParallelism >= 0 /\ cfg.Parallelism > limits.MaxParallelism
       THEN ErrParallelismTooHigh
  ELSE Nil

limitGuard(cfg, limits) ==
  IF limits.MaxAllocMB > 0 /\ cfg.AllocMB > limits.MaxAllocMB THEN ErrAllocTooLarge
  ELSE IF limits.MaxParallelism > 0 /\ cfg.Parallelism > limits.MaxParallelism
       THEN ErrParallelismTooHigh
  ELSE Nil

\* validateConfig with the latency check moved in front of the duration checks.
validateConfig_latencyFirst(cfg, limits) ==
  IF cfg.Latency < 0 THEN ErrLatency
  ELSE IF cfg.Duration <= 0 THEN ErrDuration
  ELSE IF limits.MaxDuration > 0 /\ cfg.Duration > limits.MaxDuration
       THEN ErrDurationTooLarge
  ELSE IF FLt(cfg.ErrorRate, FZero) \/ FGt(cfg.ErrorRate, FOne) THEN ErrErrorRate
  ELSE IF modeCheck(cfg) # Nil THEN modeCheck(cfg)
  ELSE limitGuard(cfg, limits)

\* validateConfig with the limit guards in front of the mode switch.
validateConfig_limitsFirst(cfg, limits) ==
  IF cfg.Duration <= 0 THEN ErrDuration
  ELSE IF limits.MaxDuration > 0 /\ cfg.Duration > limits.MaxDuration
       THEN ErrDurationTooLarge
  ELSE IF cfg.Latency < 0 THEN ErrLatency
  ELSE IF FLt(cfg.ErrorRate, FZero) \/ FGt(cfg.ErrorRate, FOne) THEN ErrErrorRate
  ELSE IF limitGuard(cfg, limits) # Nil THEN limitGuard(cfg, limits)
  ELSE modeCheck(cfg)

validateConfig(cfg, limits) ==
  IF cfg.Duration <= 0 THEN ErrDuration
  ELSE IF limits.MaxDuration > 0 /\ cfg.Duration > limits.MaxDuration
       THEN ErrDurationTooLarge
  ELSE IF cfg.Latency < 0 THEN ErrLatency
  ELSE IF FLt(cfg.ErrorRate, FZero) \/ FGt(cfg.ErrorRate, FOne) THEN ErrErrorRate
  ELSE IF modeCheck(cfg) # Nil THEN modeCheck(cfg)
  ELSE limitGuard(cfg, limits)

\* shouldError reads the random source only on its last path.
needsDraw(cfg) == ~FLe(cfg.ErrorRate, FZero) /\ ~FGe(cfg.ErrorRate, FOne)

\* shouldError without its first test.
shouldError_noZeroTest(cfg, v) ==
  IF FGe(cfg.ErrorRate, FOne) THEN TRUE ELSE FLt(v, cfg.ErrorRate)

\* shouldError with > 1 for >= 1.
shouldError_strictOne(cfg, v) ==
  IF FLe(cfg.ErrorRate, FZero) THEN FALSE
  ELSE IF FGt(cfg.ErrorRate, FOne) THEN TRUE
  ELSE FLt(v, cfg.ErrorRate)

\* shouldError with v <= cfg.ErrorRate for v < cfg.ErrorRate.
shouldError_drawLe(cfg, v) ==
  IF FLe(cfg.ErrorRate, FZero) THEN FALSE
  ELSE IF FGe(cfg.ErrorRate, FOne) THEN TRUE
  ELSE FLe(v, cfg.ErrorRate)

\* shouldError, v being the value r.Float64() returns when it is called.
shouldError(cfg, v) ==
  IF FLe(cfg.ErrorRate, FZero) THEN FALSE
  ELSE IF FGe(cfg.ErrorRate, FOne) THEN TRUE
  ELSE FLt(v, cfg.ErrorRate)

\* ------------------------------------------------------- startMemLoad sizes
chunk == 1 * 1024 * 1024
numChunks(allocMB) == ((allocMB * 1024 * 1024) + chunk - 1) \div chunk

\* ------------------------------------------------------- startIOLoad sizes
chunkSize == 32 * 1024
Min(a, b) == IF a < b THEN a ELSE b
Max(a, b) == IF a > b THEN a ELSE b

\* ------------------------------------------------------------------ inputs
Floats == {F(n) : n \in -1 .. RateDen + 1} \cup {NaN}
\* rand.Rand.Float64 returns a value in [0, 1).
UnitDraws == {F(n) : n \in 0 .. RateDen - 1}
\* Config.Rand: nil, or a source that returns the fixed value v.
NilRand == [nil |-> TRUE, v |-> FZero]
fixedRand(v) == [nil |-> FALSE, v |-> v]
Rands == {NilRand} \cup {fixedRand(v) : v \in Floats}
\* Config.rand(): the values the next Float64() of the source can return.
rand(cfg) == IF cfg.Rand.nil THEN UnitDraws ELSE {cfg.Rand.v}

Modes == KnownModes \cup {""}
ZeroConfig ==
  [Mode |-> "", Duration |-> 0, AllocMB |-> 0, Parallelism |-> 0, IOBytes |-> 0,
   Latency |-> 0, ErrorRate |-> FZero, Rand |-> NilRand]

\* Configs handed to Run.
RunConfigs ==
  [Mode : Modes,
   Duration : {0, 1, DefaultLimits.MaxDuration, DefaultLimits.MaxDuration + 1},
   AllocMB : {0, 1, DefaultLimits.MaxAllocMB, DefaultLimits.MaxAllocMB + 1},
   Parallelism : {0, 1, 2, DefaultLimits.MaxParallelism + 1},
   IOBytes : {0, 1, chunkSize + 1},
   Latency : {-1, 0, 1},
   ErrorRate : Floats,
   Rand : Rands]

\* Configs and limits handed to validateConfig on its own.
ValConfigs ==
  [Mode : Modes,
   Duration : {-1, 0, 1, 3, DefaultLimits.MaxDuration, DefaultLimits.MaxDuration + 1},
   AllocMB : {0, 1, 3, DefaultLimits.MaxAllocMB, DefaultLimits.MaxAllocMB + 1},
   Parallelism : {0, 1, 3, DefaultLimits.MaxParallelism, DefaultLimits.MaxParallelism + 1},
   IOBytes : {0, 1},
   Latency : {-1, 0},
   ErrorRate : Floats,
   Rand : {NilRand}]
ValLimits ==
  [MaxDuration : {0, 2, DefaultLimits.MaxDuration},
   MaxAllocMB : {0, 2, DefaultLimits.MaxAllocMB},
   MaxParallelism : {0, 2, DefaultLimits.MaxParallelism}]

\* ----------------------------------------------------------- package server
Millisecond == 1

LOAD_MODE_UNSPECIFIED == "LOAD_MODE_UNSPECIFIED"
LOAD_MODE_CPU == "LOAD_MODE_CPU"
LOAD_MODE_MEM == "LOAD_MODE_MEM"
LOAD_MODE_CPU_MEM == "LOAD_MODE_CPU_MEM"
LOAD_MODE_IO == "LOAD_MODE_IO"
\* An enum number the LoadMode type does not name.
LOAD_MODE_99 == "99"

ErrRequestNil == "request is nil"
ErrRepeat == "repeat must be > 0"
ErrConfigRequired == "config is required"
ErrUnsupportedMode == "unsupported mode"
ErrCanceled == "context canceled"
\* Errors of the transport: a failed Send or SendAndClose, a failed Recv.
ErrSend == "send failed"
ErrRecv == "recv failed"
EOF == "EOF"

\* A *WorkConfig; present = FALSE is the nil pointer, whose getters return
\* zero values.
WireConfig(mode, durationMs, parallelism, latencyMs, errorRate) ==
  [present |-> TRUE, Mode |-> mode, DurationMs |-> durationMs, AllocMb |-> 0,
   Parallelism |-> parallelism, IoBytes |-> 0, LatencyMs |-> latencyMs,
   ErrorRate |-> errorRate]
NoConfig ==
  [present |-> FALSE, Mode |-> LOAD_MODE_UNSPECIFIED, DurationMs |-> 0, AllocMb |-> 0,
   Parallelism |-> 0, IoBytes |-> 0, LatencyMs |-> 0, ErrorRate |-> FZero]

\* workConfigFromProto rejecting a non-positive duration_ms itself.
workConfigFromProto_validates(pc) ==
  IF ~pc.present THEN [err |-> ErrConfigRequired, cfg |-> ZeroConfig]
  ELSE IF pc.Mode \notin {LOAD_MODE_CPU, LOAD_MODE_MEM, LOAD_MODE_CPU_MEM, LOAD_MODE_IO}
  THEN [err |-> ErrUnsupportedMode, cfg |-> ZeroConfig]
  ELSE IF pc.DurationMs <= 0
  THEN [err |-> ErrDuration, cfg |-> ZeroConfig]
  ELSE [err |-> Nil,
        cfg |-> [Mode |-> CASE pc.Mode = LOAD_MODE_CPU -> ModeCPU
                            [] pc.Mode = LOAD_MODE_MEM -> ModeMem
                            [] pc.Mode = LOAD_MODE_CPU_MEM -> ModeCPUMem
                            [] pc.Mode = LOAD_MODE_IO -> ModeIO,
                 Duration |-> pc.DurationMs * Millisecond,
                 AllocMB |-> pc.AllocMb,
                 Parallelism |-> pc.Parallelism,
                 IOBytes |-> pc.IoBytes,
                 Latency |-> pc.LatencyMs * Millisecond,
                 ErrorRate |-> pc.ErrorRate,
                 Rand |-> NilRand]]

\* workConfigFromProto: the error and the load.Config it returns.
workConfigFromProto(pc) ==
  IF ~pc.present THEN [err |-> ErrConfigRequired, cfg |-> ZeroConfig]
  ELSE IF pc.Mode \notin {LOAD_MODE_CPU, LOAD_MODE_MEM, LOAD_MODE_CPU_MEM, LOAD_MODE_IO}
  THEN [err |-> ErrUnsupportedMode, cfg |-> ZeroConfig]
  ELSE [err |-> Nil,
        cfg |-> [Mode |-> CASE pc.Mode = LOAD_MODE_CPU -> ModeCPU
                            [] pc.Mode = LOAD_MODE_MEM -> ModeMem
                            [] pc.Mode = LOAD_MODE_CPU_MEM -> ModeCPUMem
                            [] pc.Mode = LOAD_MODE_IO -> ModeIO,
                 Duration |-> pc.DurationMs * Millisecond,
                 AllocMB |-> pc.AllocMb,
                 Parallelism |-> pc.Parallelism,
                 IOBytes |-> pc.IoBytes,
                 Latency |-> pc.LatencyMs * Millisecond,
                 ErrorRate |-> pc.ErrorRate,
                 Rand |-> NilRand]]

\* A request message; nil = TRUE is the nil pointer.
Request(id, pc, repeat) ==
  [nil |-> FALSE, RequestId |-> id, Config |-> pc, Repeat |-> repeat]
NilReq == [nil |-> TRUE, RequestId |-> "", Config |-> NoConfig, Repeat |-> 0]

\* DoWorkResponse and DoWorkSummary.
Response(id, ok, msg) == [RequestId |-> id, Ok |-> ok, ErrorMessage |-> msg]
Summary(id, total, success, failed) ==
  [RequestId |-> id, Total |-> total, Success |-> success, Failed |-> failed]

\* Wire configs of the calls: absent, unrecognized mode, rejected by
\* validateConfig, valid, valid and always injected, valid and injected on
\* the draw.
WireConfigs ==
  {NoConfig,
   WireConfig(LOAD_MODE_UNSPECIFIED, 1, 1, 0, FZero),
   WireConfig(LOAD_MODE_CPU, 0, 1, 0, FZero),
   WireConfig(LOAD_MODE_CPU, 1, 1, 0, FZero),
   WireConfig(LOAD_MODE_CPU, 1, 1, 1, FOne),
   WireConfig(LOAD_MODE_CPU, 1, 1, 0, F(1))}
\* Wire configs handed to workConfigFromProto on its own.
TransConfigs ==
  {NoConfig} \cup
  [present : {TRUE},
   Mode : {LOAD_MODE_UNSPECIFIED, LOAD_MODE_CPU, LOAD_MODE_MEM, LOAD_MODE_CPU_MEM,
           LOAD_MODE_IO, LOAD_MODE_99},
   DurationMs : {-1, 0, 1},
   AllocMb : {0, 1},
   Parallelism : {0, 1},
   IoBytes : {0, 1},
   LatencyMs : {-1, 0},
   ErrorRate : Floats]
RequestIds == {"", "a", "b"}
Repeats == -1 .. MaxRepeat
Shapes == {"unary", "sstream", "cstream", "bidi"}

\* -------------------------------------------------------------- the client
\* The client's time.Duration flags are counted in microseconds, so that a
\* work-duration below one millisecond is a value of the model.
ClientMillisecond == 1000

\* Go's integer division, which truncates toward zero.
GoDiv(a, b) == IF a >= 0 THEN a \div b ELSE -((-a) \div b)

MinInt32 == -2147483647 - 1
MaxInt32 == 2147483647

ErrWorkMode == "invalid work-mode (expected cpu|mem|cpu-mem|io)"
ErrWorkDuration == "work-duration must be > 0"
ErrClientErrorRate == "error-rate must be between 0.0 and 1.0"
ErrInt32 == "out of int32 range"

\* The fields of options that the calls read.
Options(workMode, workDuration, parallelism, latency, errorRate, repeat) ==
  [WorkMode |-> workMode, WorkDuration |-> workDuration, AllocMB |-> 0,
   Parallelism |-> parallelism, IOBytes |-> 0, Latency |-> latency,
   ErrorRate |-> errorRate, Repeat |-> repeat]
NoOptions == Options("", 0, 0, 0, FZero, 0)

\* mustInt32: the error it returns.
mustInt32(v) == IF v < MinInt32 \/ v > MaxInt32 THEN ErrInt32 ELSE Nil

\* workConfigFromOptions: the error and the *WorkConfig it returns.
workConfigFromOptions(opts) ==
  IF opts.WorkMode \notin {"cpu", "mem", "cpu-mem", "io"}
  THEN [err |-> ErrWorkMode, wc |-> NoConfig]
  ELSE IF opts.WorkDuration <= 0 THEN [err |-> ErrWorkDuration, wc |-> NoConfig]
  ELSE IF FLt(opts.ErrorRate, FZero) \/ FGt(opts.ErrorRate, FOne)
  THEN [err |-> ErrClientErrorRate, wc |-> NoConfig]
  ELSE IF mustInt32(opts.AllocMB) # Nil THEN [err |-> ErrInt32, wc |-> NoConfig]
  ELSE IF mustInt32(opts.Parallelism) # Nil THEN [err |-> ErrInt32, wc |-> NoConfig]
  ELSE IF mustInt32(opts.IOBytes) # Nil THEN [err |-> ErrInt32, wc |-> NoConfig]
  ELSE [err |-> Nil,
        wc |-> [present |-> TRUE,
                Mode |-> CASE opts.WorkMode = "cpu" -> LOAD_MODE_CPU
                           [] opts.WorkMode = "mem" -> LOAD_MODE_MEM
                           [] opts.WorkMode = "cpu-mem" -> LOAD_MODE_CPU_MEM
                           [] opts.WorkMode = "io" -> LOAD_MODE_IO,
                DurationMs |-> GoDiv(opts.WorkDuration, ClientMillisecond),
                AllocMb |-> opts.AllocMB,
                Parallelism |-> opts.Parallelism,
                IoBytes |-> opts.IOBytes,
                LatencyMs |-> GoDiv(opts.Latency, ClientMillisecond),
                ErrorRate |-> opts.ErrorRate]]

\* Option sets handed to workConfigFromOptions on its own: every work-mode
\* and one the switch does not name, durations around zero and around one
\* millisecond, every float of the model.
ClientOptions ==
  {Options(m, d, p, l, e, 1) :
     m \in {"cpu", "mem", "cpu-mem", "io", "disk"},
     d \in {-1, 0, 500, 1000, 1500},
     p \in {0, 1},
     l \in {-1500, 0, 500},
     e \in Floats}

\* The client of a call before it has started: its position, opts, wc and the
\* error it returns, its counters sent and received, the summary it got, and
\* its side of the stream (the requests handed to Send, the half-close).
NoClient ==
  [pc |-> "none", opts |-> NoOptions, wc |-> NoConfig, err |-> "none",
   sent |-> 0, received |-> 0, summary |-> <<>>, reqs |-> <<>>, closed |-> FALSE]

\* ------------------------------------------------- package observability
\* FullMethod of the unary RPC and of the three streaming RPCs.
UnaryEndpoints == {"/grpcburner.v1.Burner/DoWork"}
StreamEndpoints ==
  {"/grpcburner.v1.Burner/DoWorkServerStreaming",
   "/grpcburner.v1.Burner/DoWorkClientStreaming",
   "/grpcburner.v1.Burner/DoWorkBidiStreaming"}
Endpoints == UnaryEndpoints \cup StreamEndpoints

\* What a handler returns: a response (none for a stream handler) and an
\* error: nil, an error that carries a gRPC status, or any other error.
ErrStatusCanceled == "rpc error: code = Canceled"
ErrPlain == "plain error"
UnaryOutputs ==
  {[resp |-> "resp", err |-> Nil], [resp |-> "nil", err |-> ErrStatusCanceled],
   [resp |-> "nil", err |-> ErrPlain]}
StreamOutputs ==
  {[resp |-> "none", err |-> Nil], [resp |-> "none", err |-> ErrStatusCanceled],
   [resp |-> "none", err |-> ErrPlain]}
NoOutput == [resp |-> "none", err |-> "none"]

\* status.FromError(err) followed by st.Code().String(): OK for a nil error,
\* the code of a status error, Unknown for any other error.
Codes == {"OK", "Canceled", "Unknown"}
codeOf(err) ==
  IF err = Nil THEN "OK"
  ELSE IF err = ErrStatusCanceled THEN "Canceled"
  ELSE "Unknown"

\* The calls that go through the interceptors.
Calls == 1 .. MaxCalls
NoCall == [pc |-> "idle", endpoint |-> "", out |-> NoOutput, ret |-> NoOutput, incs |-> 0]
\* The vectors as registered: no child has a value yet.
NoMetrics ==
  [calls |-> [i \in Calls |-> NoCall],
   inFlight |-> [e \in Endpoints |-> 0],
   total |-> [e \in Endpoints |-> [c \in Codes |-> 0]],
   observed |-> [e \in Endpoints |-> 0]]

\* ------------------------------------------------------------------ int64
\* A 64-bit integer as its eight bytes, least significant first, in two's
\* complement.
Bytes == 8
Int64(b1, b2, b3, b4, b5, b6, b7, b8) == <<b1, b2, b3, b4, b5, b6, b7, b8>>
\* The int64 of hi * 2^56 + lo, for 0 <= lo < 2^31 and 0 <= hi < 2^8.
Int64Of(hi, lo) ==
  Int64(lo % 256, (lo \div 256) % 256, (lo \div 65536) % 256, lo \div 16777216,
        0, 0, 0, hi)
Int64Zero == Int64Of(0, 0)
Int64Neg(x) == x[Bytes] >= 128

\* x < y for two int64 of the same sign is the order of their bytes from
\* the most significant one.
RECURSIVE BytesLt(_, _, _)
BytesLt(x, y, i) ==
  IF i = 0 THEN FALSE
  ELSE IF x[i] # y[i] THEN x[i] < y[i]
  ELSE BytesLt(x, y, i - 1)
Int64Lt(x, y) ==
  IF Int64Neg(x) # Int64Neg(y) THEN Int64Neg(x) ELSE BytesLt(x, y, Bytes)
Int64Le(x, y) == x = y \/ Int64Lt(x, y)

\* x * k modulo 2^64 for 0 <= k < 2^23: schoolbook multiplication, the carry
\* out of the last byte dropped.
RECURSIVE MulBytes(_, _, _, _)
MulBytes(x, k, i, carry) ==
  IF i > Bytes THEN <<>>
  ELSE <<(x[i] * k + carry) % 256>> \o
       MulBytes(x, k, i + 1, (x[i] * k + carry) \div 256)
Int64Mul(x, k) == MulBytes(x, k, 1, 0)

\* time.Millisecond, time.Second and the default MaxDuration in nanoseconds.
MillisecondNs == 1000000
SixtySecondsNs == Int64(0, 88, 71, 248, 13, 0, 0, 0)
SixtySecondsMs == Int64Of(0, 60000)

\* time.Duration(pc.GetDurationMs()) * time.Millisecond at its width.
durationOf(ms) == Int64Mul(ms, MillisecondNs)

\* The duration tests of validateConfig under the default limits.
validateDuration(d) ==
  IF Int64Le(d, Int64Zero) THEN ErrDuration
  ELSE IF Int64Lt(SixtySecondsNs, d) THEN ErrDurationTooLarge
  ELSE Nil

\* duration_ms values of the wire: the top byte and the low 31 bits vary.
WideInputs ==
  {Int64Of(hi, lo) : hi \in {0, 4, 8, 12, 64, 127, 128, 252, 255},
                     lo \in {0, 1, 2, 1000, 59999, 60000, 60001, 61000, 2147483647}}
NoWide == [pc |-> "none", ms |-> Int64Zero, d |-> Int64Zero, res |-> "none", ok |-> FALSE]

\* ------------------------------------------------------------------- state
VARIABLES
  vcfg, vlim, vres,   \* a call of validateConfig: arguments and result
  pc,                 \* position of Run: idle, sleep, inject, start, wait, done
  cfg,                \* Run's cfg argument
  parent,             \* the caller's ctx: nil, live or cancelled
  ctxCreated,         \* context.WithTimeout has been called
  deadlineFired,      \* the cfg.Duration timer of the run context has fired
  cancelled,          \* the deferred cancel() has run
  draws,              \* number of Float64() calls on the random source
  injected,           \* shouldError returned true
  result,             \* Run's return value
  log,                \* the steps of Run in the order they were taken
  cpuStarted,         \* CPU worker goroutines started by startCPULoad
  cpuRunning,         \* CPU worker goroutines that have not returned
  mem,                \* MEM worker: none, alloc, wait, done
  memChunks,          \* chunks held in bufs
  memAllocated,       \* chunks allocated so far by this run
  io,                 \* IO worker: none, create, loop, write, sync, done
  remaining,          \* remaining of the IO worker's write loop
  offset,             \* file offset of the IO worker's descriptor
  fileExists,         \* the temporary file exists on disk
  fileSize,           \* its size in bytes
  filesCreated,       \* temporary files created so far by this run
  shape,              \* the RPC being served: unary, sstream, cstream, bidi
  hpc,                \* position of the handler
  req,                \* the request of a unary or server-streaming call
  recvd,              \* the requests stream.Recv has returned, in order
  sent,               \* the responses returned or handed to Send/SendAndClose
  outcomes,           \* per item: the translation error or the result of Run
  iter,               \* loop variable i of DoWorkServerStreaming
  counts,             \* total, success, failed of DoWorkClientStreaming
  summaryReq,         \* summaryReq of DoWorkClientStreaming
  herr,               \* the error the handler returned
  runs,               \* calls of load.Run made by the handler
  wire,               \* the returns of Recv, Send and SendAndClose, in order
  client,             \* the client of the call and its side of the stream
  metrics,            \* the Prometheus vectors and the calls going through them
  wide                \* a duration_ms at its 64-bit width and its conversion

valVars == <<vcfg, vlim, vres>>
ctxVars == <<parent, ctxCreated, deadlineFired, cancelled>>
runVars == <<pc, cfg, draws, injected, result, log>>
cpuVars == <<cpuStarted, cpuRunning>>
memVars == <<mem, memChunks, memAllocated>>
ioVars == <<io, remaining, offset, fileExists, fileSize, filesCreated>>
rpcVars ==
  <<shape, hpc, req, recvd, sent, outcomes, iter, counts, summaryReq, herr, runs,
    wire>>
extVars == <<client, metrics, wide>>
vars == <<valVars, ctxVars, runVars, cpuVars, memVars, ioVars, rpcVars, extVars>>

\* <-ctx.Done() of the run context is ready.
ctxDone == ctxCreated /\ (deadlineFired \/ cancelled \/ parent = "cancelled")

\* sync.WaitGroup counter.
wg ==
  cpuRunning + (IF mem \in {"alloc", "wait"} THEN 1 ELSE 0)
             + (IF io \in {"create", "loop", "write", "sync"} THEN 1 ELSE 0)

InitRun ==
  /\ pc = "idle" /\ cfg = ZeroConfig
  /\ ctxCreated = FALSE /\ deadlineFired = FALSE /\ cancelled = FALSE
  /\ draws = 0 /\ injected = FALSE /\ result = "none" /\ log = <<>>
  /\ cpuStarted = 0 /\ cpuRunning = 0
  /\ mem = "none" /\ memChunks = 0 /\ memAllocated = 0
  /\ io = "none" /\ remaining = 0 /\ offset = 0 /\ fileExists = FALSE /\ fileSize = 0
  /\ filesCreated = 0

\* No client, no interceptor and no wide conversion in the picture.
NoExt == client = NoClient /\ metrics = NoMetrics /\ wide = NoWide

\* No RPC is being served.
NoRPC ==
  /\ shape = "none" /\ hpc = "none" /\ req = NilReq
  /\ recvd = <<>> /\ sent = <<>> /\ outcomes = <<>>
  /\ iter = 0 /\ counts = [total |-> 0, success |-> 0, failed |-> 0]
  /\ summaryReq = "" /\ herr = "none" /\ runs = 0 /\ wire = <<>>

Init ==
  /\ vcfg = ZeroConfig /\ vlim = DefaultLimits /\ vres = "none"
  /\ InitRun /\ parent \in {"nil", "live"}
  /\ NoRPC /\ NoExt

\* The arguments of one call of validateConfig.
InitValidate ==
  /\ vcfg \in ValConfigs /\ vlim \in ValLimits /\ vres = "none"
  /\ InitRun /\ parent = "nil"
  /\ NoRPC /\ NoExt

\* ---------------------------------------------------------- validateConfig
\* The call validateConfig(vcfg, vlim).
ValidateCall ==
  /\ vres = "none"
  /\ vres' = validateConfig(vcfg, vlim)
  /\ UNCHANGED <<vcfg, vlim, extVars, rpcVars, ctxVars, runVars, cpuVars, memVars,
                 ioVars>>

\* ---------------------------------------------------------------- contexts
\* The caller cancels its context (at any time, also before it calls Run).
ParentCancel ==
  /\ parent = "live"
  /\ parent' = "cancelled"
  /\ UNCHANGED <<valVars, extVars, rpcVars, ctxCreated, deadlineFired, cancelled, runVars, cpuVars,
                 memVars, ioVars>>

\* The timer of context.WithTimeout(ctx, cfg.Duration) fires.
DeadlineExpires ==
  /\ ctxCreated /\ ~deadlineFired /\ ~cancelled
  /\ deadlineFired' = TRUE
  /\ UNCHANGED <<valVars, extVars, rpcVars, parent, ctxCreated, cancelled, runVars, cpuVars, memVars,
                 ioVars>>

\* --------------------------------------------------------------------- Run
\* RunCall with context.WithTimeout called before validateConfig.
RunCall_ctxFirst ==
  /\ pc = "idle"
  /\ \E c \in RunConfigs :
    /\ cfg' = c
    /\ ctxCreated' = TRUE
    /\ IF validateConfig(c, DefaultLimits) # Nil
       THEN /\ result' = validateConfig(c, DefaultLimits)
            /\ pc' = "done"
            /\ log' = <<"ctx", "validate">>
       ELSE /\ result' = result
            /\ IF c.Latency <= 0
               THEN pc' = "inject" /\ log' = <<"ctx", "validate">>
               ELSE pc' = "sleep" /\ log' = <<"ctx", "validate", "sleep">>
    /\ UNCHANGED <<valVars, extVars, rpcVars, parent, deadlineFired, cancelled, draws, injected,
                   cpuVars, memVars, ioVars>>

\* RunCall without the call of maybeSleep.
RunCall_noSleep ==
  /\ pc = "idle"
  /\ \E c \in RunConfigs :
    /\ cfg' = c
    /\ IF validateConfig(c, DefaultLimits) # Nil
       THEN /\ result' = validateConfig(c, DefaultLimits)
            /\ pc' = "done"
            /\ log' = <<"validate">>
            /\ UNCHANGED ctxCreated
       ELSE /\ ctxCreated' = TRUE
            /\ result' = result
            /\ pc' = "inject" /\ log' = <<"validate", "ctx">>
    /\ UNCHANGED <<valVars, extVars, rpcVars, parent, deadlineFired, cancelled, draws, injected,
                   cpuVars, memVars, ioVars>>

\* Run(ctx, c) up to its first blocking point: validateConfig, WithTimeout
\* and the entry of maybeSleep.
RunEnter(c) ==
  /\ cfg' = c
  /\ IF validateConfig(c, DefaultLimits) # Nil
     THEN /\ result' = validateConfig(c, DefaultLimits)
          /\ pc' = "done"
          /\ log' = <<"validate">>
          /\ UNCHANGED ctxCreated
     ELSE /\ ctxCreated' = TRUE
          /\ result' = result
          /\ IF c.Latency <= 0
             THEN pc' = "inject" /\ log' = <<"validate", "ctx">>
             ELSE pc' = "sleep" /\ log' = <<"validate", "ctx", "sleep">>
  /\ UNCHANGED <<parent, deadlineFired, cancelled, draws, injected, cpuVars,
                 memVars, ioVars>>

\* A call of Run on its own, with any config.
RunCall ==
  /\ pc = "idle"
  /\ \E c \in RunConfigs : RunEnter(c)
  /\ UNCHANGED <<valVars, extVars, rpcVars>>

\* maybeSleep returns through case <-timer.C.
SleepTimer ==
  /\ pc = "sleep"
  /\ pc' = "inject"
  /\ log' = Append(log, "wake-timer")
  /\ UNCHANGED <<valVars, extVars, rpcVars, ctxVars, cfg, draws, injected, result, cpuVars, memVars,
                 ioVars>>

\* maybeSleep reporting the cancellation and Run returning it.
SleepCancelled_ctxErr ==
  /\ pc = "sleep" /\ ctxDone
  /\ pc' = "done"
  /\ result' = IF parent = "cancelled" THEN "context canceled"
               ELSE "context deadline exceeded"
  /\ log' = Append(log, "wake-ctx")
  /\ cancelled' = TRUE
  /\ UNCHANGED <<valVars, extVars, rpcVars, parent, ctxCreated, deadlineFired, cfg, draws,
                 injected, cpuVars, memVars, ioVars>>

\* maybeSleep reporting an expired deadline and Run returning it.
SleepCancelled_deadlineErr ==
  /\ pc = "sleep" /\ ctxDone
  /\ IF deadlineFired
     THEN /\ pc' = "done"
          /\ result' = "context deadline exceeded"
          /\ cancelled' = TRUE
     ELSE /\ pc' = "inject"
          /\ UNCHANGED <<result, cancelled>>
  /\ log' = Append(log, "wake-ctx")
  /\ UNCHANGED <<valVars, extVars, rpcVars, parent, ctxCreated, deadlineFired, cfg, draws,
                 injected, cpuVars, memVars, ioVars>>

\* Run returning nil as soon as the sleep is cut short.
SleepCancelled_returnNil ==
  /\ pc = "sleep" /\ ctxDone
  /\ pc' = "done"
  /\ result' = Nil
  /\ cancelled' = TRUE
  /\ log' = Append(log, "wake-ctx")
  /\ UNCHANGED <<valVars, extVars, rpcVars, parent, ctxCreated, deadlineFired, cfg, draws,
                 injected, cpuVars, memVars, ioVars>>

\* maybeSleep returns through case <-ctx.Done().
SleepCancelled ==
  /\ pc = "sleep" /\ ctxDone
  /\ pc' = "inject"
  /\ log' = Append(log, "wake-ctx")
  /\ UNCHANGED <<valVars, extVars, rpcVars, ctxVars, cfg, draws, injected, result, cpuVars, memVars,
                 ioVars>>

\* Inject reading the random source before it tests errorRate.
Inject_drawFirst ==
  /\ pc = "inject"
  /\ \E v \in rand(cfg) :
       /\ draws' = draws + 1
       /\ injected' = shouldError(cfg, v)
       /\ IF shouldError(cfg, v)
          THEN /\ result' = ErrInjected
               /\ cancelled' = TRUE
               /\ pc' = "done"
          ELSE /\ pc' = "start"
               /\ UNCHANGED <<result, cancelled>>
       /\ log' = log \o <<"draw", "decide">>
  /\ UNCHANGED <<valVars, extVars, rpcVars, parent, ctxCreated, deadlineFired, cfg, cpuVars, memVars,
                 ioVars>>

\* if shouldError(cfg) { return ErrInjected }, with the deferred cancel().
Inject ==
  /\ pc = "inject"
  /\ \E v \in rand(cfg) :
       /\ draws' = IF needsDraw(cfg) THEN draws + 1 ELSE draws
       /\ injected' = shouldError(cfg, v)
       /\ IF shouldError(cfg, v)
          THEN /\ result' = ErrInjected
               /\ cancelled' = TRUE
               /\ pc' = "done"
          ELSE /\ pc' = "start"
               /\ UNCHANGED <<result, cancelled>>
       /\ log' = log \o (IF needsDraw(cfg) THEN <<"draw">> ELSE <<>>) \o <<"decide">>
  /\ UNCHANGED <<valVars, extVars, rpcVars, parent, ctxCreated, deadlineFired, cfg, cpuVars, memVars,
                 ioVars>>

\* startCPULoad starting one goroutine per CPU, whatever n is.
startCPULoad_perCPU(n) == IF n <= 0 THEN 0 ELSE NumCPU
\* startCPULoad(ctx, &wg, n): the goroutines it starts.
startCPULoad(n) == IF n <= 0 THEN 0 ELSE n
\* startMemLoad(ctx, &wg, allocMB): the state of the goroutine it starts.
startMemLoad(allocMB) == IF allocMB <= 0 THEN "none" ELSE "alloc"
\* startIOLoad(ctx, &wg, ioBytes): the state of the goroutine it starts.
startIOLoad(ioBytes) == IF ioBytes <= 0 THEN "none" ELSE "create"

\* The switch cfg.Mode of Run.
StartWorkers ==
  /\ pc = "start"
  /\ IF cfg.Mode \in KnownModes
     THEN /\ pc' = "wait"
          /\ log' = Append(log, "start")
          /\ cpuStarted' = IF cfg.Mode \in {ModeCPU, ModeCPUMem}
                           THEN startCPULoad(cfg.Parallelism) ELSE 0
          /\ cpuRunning' = cpuStarted'
          /\ mem' = IF cfg.Mode \in {ModeMem, ModeCPUMem}
                    THEN startMemLoad(cfg.AllocMB) ELSE "none"
          /\ io' = IF cfg.Mode = ModeIO THEN startIOLoad(cfg.IOBytes) ELSE "none"
          /\ UNCHANGED <<result, cancelled>>
     ELSE /\ pc' = "done"
          /\ result' = ErrInvalidMode
          /\ cancelled' = TRUE
          /\ log' = log
          /\ UNCHANGED <<cpuVars, mem, io>>
  /\ UNCHANGED <<valVars, extVars, rpcVars, parent, ctxCreated, deadlineFired, cfg, draws, injected,
                 memChunks, memAllocated, remaining, offset, fileExists, fileSize,
                 filesCreated>>

\* Wait returning ctx.Err() of the run context.
Wait_ctxErr ==
  /\ pc = "wait" /\ wg = 0
  /\ pc' = "done"
  /\ result' = IF deadlineFired THEN "context deadline exceeded"
               ELSE IF parent = "cancelled" THEN "context canceled" ELSE Nil
  /\ cancelled' = TRUE
  /\ log' = Append(log, "return")
  /\ UNCHANGED <<valVars, extVars, rpcVars, parent, ctxCreated, deadlineFired, cfg, draws, injected,
                 cpuVars, memVars, ioVars>>

\* Wait without wg.Wait().
Wait_noJoin ==
  /\ pc = "wait"
  /\ pc' = "done"
  /\ result' = Nil
  /\ cancelled' = TRUE
  /\ log' = Append(log, "return")
  /\ UNCHANGED <<valVars, extVars, rpcVars, parent, ctxCreated, deadlineFired, cfg, draws,
                 injected, cpuVars, memVars, ioVars>>

\* Wait reporting an IO worker that ended before the run context was done.
Wait_ioErr ==
  /\ pc = "wait" /\ wg = 0
  /\ pc' = "done"
  /\ result' = IF io = "done" /\ ~ctxDone THEN "load: io worker failed" ELSE Nil
  /\ cancelled' = TRUE
  /\ log' = Append(log, "return")
  /\ UNCHANGED <<valVars, extVars, rpcVars, parent, ctxCreated, deadlineFired, cfg, draws, injected,
                 cpuVars, memVars, ioVars>>

\* Wait whose deferred cancel() cancels the caller's context too.
Wait_cancelParent ==
  /\ pc = "wait" /\ wg = 0
  /\ pc' = "done"
  /\ result' = Nil
  /\ cancelled' = TRUE
  /\ parent' = IF parent = "live" THEN "cancelled" ELSE parent
  /\ log' = Append(log, "return")
  /\ UNCHANGED <<valVars, extVars, rpcVars, ctxCreated, deadlineFired, cfg, draws, injected,
                 cpuVars, memVars, ioVars>>

\* wg.Wait(); return nil, with the deferred cancel().
Wait ==
  /\ pc = "wait" /\ wg = 0
  /\ pc' = "done"
  /\ result' = Nil
  /\ cancelled' = TRUE
  /\ log' = Append(log, "return")
  /\ UNCHANGED <<valVars, extVars, rpcVars, parent, ctxCreated, deadlineFired, cfg, draws, injected,
                 cpuVars, memVars, ioVars>>

\* Run has returned: its context, WaitGroup and locals are gone.
EngineReset ==
  /\ pc' = "idle" /\ cfg' = ZeroConfig
  /\ ctxCreated' = FALSE /\ deadlineFired' = FALSE /\ cancelled' = FALSE
  /\ draws' = 0 /\ injected' = FALSE /\ result' = "none" /\ log' = <<>>
  /\ cpuStarted' = 0 /\ cpuRunning' = 0
  /\ mem' = "none" /\ memChunks' = 0 /\ memAllocated' = 0
  /\ io' = "none" /\ remaining' = 0 /\ offset' = 0 /\ fileExists' = FALSE
  /\ fileSize' = 0 /\ filesCreated' = 0

\* The caller takes the result; the next call starts from a fresh state
\* with a context of its own.
Return ==
  /\ pc = "done"
  /\ EngineReset
  /\ parent' \in {"nil", "live"}
  /\ UNCHANGED <<valVars, extVars, rpcVars>>

\* ------------------------------------------------------------- CPU workers
\* CPUExit with the worker polling the caller's context, not the run context.
CPUExit_parentCtx ==
  /\ cpuRunning > 0 /\ parent = "cancelled"
  /\ cpuRunning' = cpuRunning - 1
  /\ UNCHANGED <<valVars, extVars, rpcVars, ctxVars, runVars, cpuStarted, memVars, ioVars>>

\* A CPU worker that returns without waiting for ctx.Done().
CPUExit_noCtx ==
  /\ cpuRunning > 0
  /\ cpuRunning' = cpuRunning - 1
  /\ UNCHANGED <<valVars, extVars, rpcVars, ctxVars, runVars, cpuStarted, memVars, ioVars>>

\* A CPU worker takes case <-ctx.Done() and returns (wg.Done).  The default
\* branch only updates the goroutine's local accumulator x.
CPUExit ==
  /\ cpuRunning > 0 /\ ctxDone
  /\ cpuRunning' = cpuRunning - 1
  /\ UNCHANGED <<valVars, extVars, rpcVars, ctxVars, runVars, cpuStarted, memVars, ioVars>>

\* -------------------------------------------------------------- MEM worker
\* The allocation loop: numChunks chunks, every page touched.
MemAlloc ==
  /\ mem = "alloc"
  /\ memChunks' = numChunks(cfg.AllocMB)
  /\ memAllocated' = memAllocated + numChunks(cfg.AllocMB)
  /\ mem' = "wait"
  /\ UNCHANGED <<valVars, extVars, rpcVars, ctxVars, runVars, cpuVars, ioVars>>

\* <-ctx.Done(), then the goroutine returns and bufs is released.
MemExit ==
  /\ mem = "wait" /\ ctxDone
  /\ mem' = "done"
  /\ memChunks' = 0
  /\ UNCHANGED <<valVars, extVars, rpcVars, ctxVars, runVars, cpuVars, memAllocated, ioVars>>

\* --------------------------------------------------------------- IO worker
\* The deferred f.Close(); os.Remove(name), then wg.Done.
ioCleanup ==
  /\ io' = "done"
  /\ fileExists' = FALSE
  /\ fileSize' = 0
  /\ UNCHANGED <<remaining, offset, filesCreated>>

\* os.CreateTemp succeeds or fails.
IOCreate ==
  /\ io = "create"
  /\ \E ok \in BOOLEAN :
       IF ok
       THEN /\ io' = "loop"
            /\ fileExists' = TRUE
            /\ fileSize' = 0
            /\ offset' = 0
            /\ filesCreated' = filesCreated + 1
            /\ UNCHANGED remaining
       ELSE /\ io' = "done"
            /\ UNCHANGED <<remaining, offset, fileExists, fileSize, filesCreated>>
  /\ UNCHANGED <<valVars, extVars, rpcVars, ctxVars, runVars, cpuVars, memVars>>

\* The outer loop without f.Seek(0, io.SeekStart): each pass appends.
IOLoop_noSeek ==
  /\ io = "loop"
  /\ IF ctxDone
     THEN ioCleanup
     ELSE \E ok \in BOOLEAN :
            IF ok
            THEN /\ io' = "write"
                 /\ remaining' = cfg.IOBytes
                 /\ UNCHANGED <<offset, fileExists, fileSize, filesCreated>>
            ELSE ioCleanup
  /\ UNCHANGED <<valVars, extVars, rpcVars, ctxVars, runVars, cpuVars, memVars>>

\* Head of the outer loop: the ctx.Done() check, then f.Seek(0, io.SeekStart).
IOLoop ==
  /\ io = "loop"
  /\ IF ctxDone
     THEN ioCleanup
     ELSE \E ok \in BOOLEAN :
            IF ok
            THEN /\ io' = "write"
                 /\ offset' = 0
                 /\ remaining' = cfg.IOBytes
                 /\ UNCHANGED <<fileExists, fileSize, filesCreated>>
            ELSE ioCleanup
  /\ UNCHANGED <<valVars, extVars, rpcVars, ctxVars, runVars, cpuVars, memVars>>

\* IOWrite whose cancellation path returns without the deferred cleanup.
IOWrite_leakOnCancel ==
  /\ io = "write"
  /\ IF remaining <= 0
     THEN /\ io' = "sync"
          /\ UNCHANGED <<remaining, offset, fileExists, fileSize, filesCreated>>
     ELSE IF ctxDone
     THEN /\ io' = "done"
          /\ UNCHANGED <<remaining, offset, fileExists, fileSize, filesCreated>>
     ELSE \E ok \in BOOLEAN :
            IF ok
            THEN /\ remaining' = remaining - Min(remaining, chunkSize)
                 /\ offset' = offset + Min(remaining, chunkSize)
                 /\ fileSize' = Max(fileSize, offset + Min(remaining, chunkSize))
                 /\ UNCHANGED <<io, fileExists, filesCreated>>
            ELSE ioCleanup
  /\ UNCHANGED <<valVars, extVars, rpcVars, ctxVars, runVars, cpuVars, memVars>>

\* One iteration of for remaining > 0: the ctx.Done() check, then one
\* f.Write(buf[:n]) with n = min(remaining, len(buf)).
IOWrite ==
  /\ io = "write"
  /\ IF remaining <= 0
     THEN /\ io' = "sync"
          /\ UNCHANGED <<remaining, offset, fileExists, fileSize, filesCreated>>
     ELSE IF ctxDone
     THEN ioCleanup
     ELSE \E ok \in BOOLEAN :
            IF ok
            THEN /\ remaining' = remaining - Min(remaining, chunkSize)
                 /\ offset' = offset + Min(remaining, chunkSize)
                 /\ fileSize' = Max(fileSize, offset + Min(remaining, chunkSize))
                 /\ UNCHANGED <<io, fileExists, filesCreated>>
            ELSE ioCleanup
  /\ UNCHANGED <<valVars, extVars, rpcVars, ctxVars, runVars, cpuVars, memVars>>

\* f.Sync() succeeds or fails.
IOSync ==
  /\ io = "sync"
  /\ \E ok \in BOOLEAN :
       IF ok
       THEN /\ io' = "loop"
            /\ UNCHANGED <<remaining, offset, fileExists, fileSize, filesCreated>>
       ELSE ioCleanup
  /\ UNCHANGED <<valVars, extVars, rpcVars, ctxVars, runVars, cpuVars, memVars>>

\* ------------------------------------------------------- GrpcBurnerServer
engineVars == <<ctxVars, runVars, cpuVars, memVars, ioVars>>

\* ctx.Err() of the call's context.
ctxErr == IF parent = "cancelled" THEN ErrCanceled ELSE Nil

\* A response that reports ok = true whatever load.Run returned.
runResponse_alwaysOk(id, res) == Response(id, TRUE, "")

\* The DoWorkResponse built from the result of load.Run.
runResponse(id, res) == Response(id, res = Nil, IF res = Nil THEN "" ELSE res)

\* The call's context is cancelled while the handler runs: the peer cancels,
\* disconnects, or the call's deadline expires.
CallCancel ==
  /\ hpc \notin {"none", "returned"}
  /\ ParentCancel

\* DoWork up to the call of load.Run.
DoWork ==
  /\ shape = "unary" /\ hpc = "start"
  /\ IF req.nil
     THEN /\ herr' = ErrRequestNil /\ hpc' = "returned"
          /\ UNCHANGED <<sent, outcomes, runs, engineVars>>
     ELSE IF workConfigFromProto(req.Config).err # Nil
     THEN /\ sent' = <<Response(req.RequestId, FALSE,
                        "invalid config: " \o workConfigFromProto(req.Config).err)>>
          /\ outcomes' = <<workConfigFromProto(req.Config).err>>
          /\ herr' = Nil /\ hpc' = "returned"
          /\ UNCHANGED <<runs, engineVars>>
     ELSE /\ RunEnter(workConfigFromProto(req.Config).cfg)
          /\ runs' = runs + 1 /\ hpc' = "run"
          /\ UNCHANGED <<sent, outcomes, herr>>
  /\ UNCHANGED <<valVars, extVars, shape, req, recvd, iter, counts, summaryReq, wire>>

\* DoWork from the return of load.Run.
DoWorkReturn ==
  /\ shape = "unary" /\ hpc = "run" /\ pc = "done"
  /\ sent' = <<runResponse(req.RequestId, result)>>
  /\ outcomes' = Append(outcomes, result)
  /\ herr' = Nil /\ hpc' = "returned"
  /\ EngineReset /\ UNCHANGED parent
  /\ UNCHANGED <<valVars, extVars, shape, req, recvd, iter, counts, summaryReq, runs, wire>>

\* DoWorkServerStreaming without the test of repeat.
DoWorkServerStreaming_noRepeatCheck ==
  /\ shape = "sstream" /\ hpc = "start"
  /\ IF req.nil
     THEN herr' = ErrRequestNil /\ hpc' = "returned"
     ELSE IF workConfigFromProto(req.Config).err # Nil
     THEN /\ herr' = "invalid config: " \o workConfigFromProto(req.Config).err
          /\ hpc' = "returned"
     ELSE herr' = herr /\ hpc' = "loop"
  /\ iter' = 0
  /\ UNCHANGED <<valVars, extVars, shape, req, recvd, sent, outcomes, counts, summaryReq, runs,
                 wire, engineVars>>

\* DoWorkServerStreaming up to its loop: the request, repeat and config checks.
DoWorkServerStreaming ==
  /\ shape = "sstream" /\ hpc = "start"
  /\ IF req.nil
     THEN herr' = ErrRequestNil /\ hpc' = "returned"
     ELSE IF req.Repeat <= 0
     THEN herr' = ErrRepeat /\ hpc' = "returned"
     ELSE IF workConfigFromProto(req.Config).err # Nil
     THEN /\ herr' = "invalid config: " \o workConfigFromProto(req.Config).err
          /\ hpc' = "returned"
     ELSE herr' = herr /\ hpc' = "loop"
  /\ iter' = 0
  /\ UNCHANGED <<valVars, extVars, shape, req, recvd, sent, outcomes, counts, summaryReq, runs,
                 wire, engineVars>>

\* An iteration head that does not test ctx.Err().
ServerStreamingIterate_noCtxCheck ==
  /\ shape = "sstream" /\ hpc = "loop"
  /\ IF iter >= req.Repeat
     THEN /\ herr' = Nil /\ hpc' = "returned"
          /\ UNCHANGED <<runs, engineVars>>
     ELSE /\ RunEnter(workConfigFromProto(req.Config).cfg)
          /\ runs' = runs + 1 /\ hpc' = "run"
          /\ UNCHANGED herr
  /\ UNCHANGED <<valVars, extVars, shape, req, recvd, sent, outcomes, iter, counts, summaryReq,
                 wire>>

\* Head of an iteration: i < repeat, ctx.Err(), the call of load.Run.
ServerStreamingIterate ==
  /\ shape = "sstream" /\ hpc = "loop"
  /\ IF iter >= req.Repeat
     THEN /\ herr' = Nil /\ hpc' = "returned"
          /\ UNCHANGED <<runs, engineVars>>
     ELSE IF ctxErr # Nil
     THEN /\ herr' = ctxErr /\ hpc' = "returned"
          /\ UNCHANGED <<runs, engineVars>>
     ELSE /\ RunEnter(workConfigFromProto(req.Config).cfg)
          /\ runs' = runs + 1 /\ hpc' = "run"
          /\ UNCHANGED herr
  /\ UNCHANGED <<valVars, extVars, shape, req, recvd, sent, outcomes, iter, counts, summaryReq,
                 wire>>

\* An iteration that ends the stream with the error of load.Run instead of
\* sending it as an item.
ServerStreamingSend_stopOnFailure ==
  /\ shape = "sstream" /\ hpc = "run" /\ pc = "done"
  /\ outcomes' = Append(outcomes, result)
  /\ \E ok \in BOOLEAN :
       IF result # Nil
       THEN /\ herr' = result /\ hpc' = "returned"
            /\ UNCHANGED <<sent, iter, wire>>
       ELSE IF ok
       THEN /\ sent' = Append(sent, runResponse(req.RequestId, result))
            /\ iter' = iter + 1
            /\ hpc' = "loop"
            /\ wire' = Append(wire, "send")
            /\ UNCHANGED herr
       ELSE /\ herr' = ErrSend /\ hpc' = "returned"
            /\ wire' = Append(wire, "send-err")
            /\ UNCHANGED <<sent, iter>>
  /\ EngineReset /\ UNCHANGED parent
  /\ UNCHANGED <<valVars, extVars, shape, req, recvd, counts, summaryReq, runs>>

\* An iteration that goes on to the next one after a failed Send.
ServerStreamingSend_ignoreSendError ==
  /\ shape = "sstream" /\ hpc = "run" /\ pc = "done"
  /\ outcomes' = Append(outcomes, result)
  /\ \E ok \in BOOLEAN :
       IF ok
       THEN /\ sent' = Append(sent, runResponse(req.RequestId, result))
            /\ wire' = Append(wire, "send")
       ELSE /\ wire' = Append(wire, "send-err")
            /\ UNCHANGED sent
  /\ iter' = iter + 1
  /\ hpc' = "loop"
  /\ UNCHANGED herr
  /\ EngineReset /\ UNCHANGED parent
  /\ UNCHANGED <<valVars, extVars, shape, req, recvd, counts, summaryReq, runs>>

\* Rest of an iteration: the response of the run and stream.Send, which
\* succeeds or fails.
ServerStreamingSend ==
  /\ shape = "sstream" /\ hpc = "run" /\ pc = "done"
  /\ outcomes' = Append(outcomes, result)
  /\ \E ok \in BOOLEAN :
       IF ok
       THEN /\ sent' = Append(sent, runResponse(req.RequestId, result))
            /\ iter' = iter + 1
            /\ hpc' = "loop"
            /\ wire' = Append(wire, "send")
            /\ UNCHANGED herr
       ELSE /\ herr' = ErrSend /\ hpc' = "returned"
            /\ wire' = Append(wire, "send-err")
            /\ UNCHANGED <<sent, iter>>
  /\ EngineReset /\ UNCHANGED parent
  /\ UNCHANGED <<valVars, extVars, shape, req, recvd, counts, summaryReq, runs>>

\* The requests a peer sends on a stream.
StreamRequests == {Request(id, c, 0) : id \in RequestIds, c \in WireConfigs}

\* DoWorkClientStreaming counting an untranslatable item in total only.
ClientStreamingRecv_skipInvalid ==
  /\ shape = "cstream" /\ hpc = "recv"
  /\ \/ /\ \E ok \in BOOLEAN :
             IF ok
             THEN /\ sent' = <<Summary(summaryReq, counts.total, counts.success,
                                      counts.failed)>>
                  /\ herr' = Nil
                  /\ wire' = wire \o <<"eof", "send">>
             ELSE /\ herr' = ErrSend
                  /\ wire' = wire \o <<"eof", "send-err">>
                  /\ UNCHANGED sent
        /\ hpc' = "returned"
        /\ UNCHANGED <<recvd, outcomes, counts, summaryReq, runs, engineVars>>
     \/ /\ herr' = ErrRecv /\ hpc' = "returned"
        /\ wire' = Append(wire, "recv-err")
        /\ UNCHANGED <<recvd, sent, outcomes, counts, summaryReq, runs, engineVars>>
     \/ /\ Len(recvd) < MaxItems
        /\ \E r \in StreamRequests :
             /\ recvd' = Append(recvd, r)
             /\ summaryReq' = IF summaryReq = "" THEN r.RequestId ELSE summaryReq
             /\ IF workConfigFromProto(r.Config).err # Nil
                THEN /\ counts' = [counts EXCEPT !.total = @ + 1]
                     /\ outcomes' = Append(outcomes, workConfigFromProto(r.Config).err)
                     /\ hpc' = "recv"
                     /\ UNCHANGED <<runs, engineVars>>
                ELSE /\ counts' = [counts EXCEPT !.total = @ + 1]
                     /\ RunEnter(workConfigFromProto(r.Config).cfg)
                     /\ runs' = runs + 1 /\ hpc' = "run"
                     /\ UNCHANGED outcomes
        /\ wire' = Append(wire, "recv")
        /\ UNCHANGED <<sent, herr>>
  /\ UNCHANGED <<valVars, extVars, shape, req, iter>>

\* DoWorkClientStreaming sending the summary before it returns a Recv error.
ClientStreamingRecv_summaryOnError ==
  /\ shape = "cstream" /\ hpc = "recv"
  /\ \/ /\ \E ok \in BOOLEAN :
             IF ok
             THEN /\ sent' = <<Summary(summaryReq, counts.total, counts.success,
                                      counts.failed)>>
                  /\ herr' = Nil
                  /\ wire' = wire \o <<"eof", "send">>
             ELSE /\ herr' = ErrSend
                  /\ wire' = wire \o <<"eof", "send-err">>
                  /\ UNCHANGED sent
        /\ hpc' = "returned"
        /\ UNCHANGED <<recvd, outcomes, counts, summaryReq, runs, engineVars>>
     \/ /\ herr' = ErrRecv /\ hpc' = "returned"
        /\ sent' = <<Summary(summaryReq, counts.total, counts.success, counts.failed)>>
        /\ wire' = wire \o <<"recv-err", "send">>
        /\ UNCHANGED <<recvd, outcomes, counts, summaryReq, runs, engineVars>>
     \/ /\ Len(recvd) < MaxItems
        /\ \E r \in StreamRequests :
             /\ recvd' = Append(recvd, r)
             /\ summaryReq' = IF summaryReq = "" THEN r.RequestId ELSE summaryReq
             /\ IF workConfigFromProto(r.Config).err # Nil
                THEN /\ counts' = [counts EXCEPT !.total = @ + 1, !.failed = @ + 1]
                     /\ outcomes' = Append(outcomes, workConfigFromProto(r.Config).err)
                     /\ hpc' = "recv"
                     /\ UNCHANGED <<runs, engineVars>>
                ELSE /\ counts' = [counts EXCEPT !.total = @ + 1]
                     /\ RunEnter(workConfigFromProto(r.Config).cfg)
                     /\ runs' = runs + 1 /\ hpc' = "run"
                     /\ UNCHANGED outcomes
        /\ wire' = Append(wire, "recv")
        /\ UNCHANGED <<sent, herr>>
  /\ UNCHANGED <<valVars, extVars, shape, req, iter>>

\* DoWorkClientStreaming: stream.Recv returning io.EOF (then the summary and
\* SendAndClose), an error, or a request (then the counters, the translation
\* and the call of load.Run).
ClientStreamingRecv ==
  /\ shape = "cstream" /\ hpc = "recv"
  /\ \/ /\ \E ok \in BOOLEAN :
             IF ok
             THEN /\ sent' = <<Summary(summaryReq, counts.total, counts.success,
                                      counts.failed)>>
                  /\ herr' = Nil
                  /\ wire' = wire \o <<"eof", "send">>
             ELSE /\ herr' = ErrSend
                  /\ wire' = wire \o <<"eof", "send-err">>
                  /\ UNCHANGED sent
        /\ hpc' = "returned"
        /\ UNCHANGED <<recvd, outcomes, counts, summaryReq, runs, engineVars>>
     \/ /\ herr' = ErrRecv /\ hpc' = "returned"
        /\ wire' = Append(wire, "recv-err")
        /\ UNCHANGED <<recvd, sent, outcomes, counts, summaryReq, runs, engineVars>>
     \/ /\ Len(recvd) < MaxItems
        /\ \E r \in StreamRequests :
             /\ recvd' = Append(recvd, r)
             /\ summaryReq' = IF summaryReq = "" THEN r.RequestId ELSE summaryReq
             /\ IF workConfigFromProto(r.Config).err # Nil
                THEN /\ counts' = [counts EXCEPT !.total = @ + 1, !.failed = @ + 1]
                     /\ outcomes' = Append(outcomes, workConfigFromProto(r.Config).err)
                     /\ hpc' = "recv"
                     /\ UNCHANGED <<runs, engineVars>>
                ELSE /\ counts' = [counts EXCEPT !.total = @ + 1]
                     /\ RunEnter(workConfigFromProto(r.Config).cfg)
                     /\ runs' = runs + 1 /\ hpc' = "run"
                     /\ UNCHANGED outcomes
        /\ wire' = Append(wire, "recv")
        /\ UNCHANGED <<sent, herr>>
  /\ UNCHANGED <<valVars, extVars, shape, req, iter>>

\* DoWorkClientStreaming counting an item without waiting for load.Run to
\* return.
ClientStreamingCount_noWait ==
  /\ shape = "cstream" /\ hpc = "run"
  /\ counts' = IF result # Nil THEN [counts EXCEPT !.failed = @ + 1]
               ELSE [counts EXCEPT !.success = @ + 1]
  /\ outcomes' = Append(outcomes, result)
  /\ hpc' = "recv"
  /\ EngineReset /\ UNCHANGED parent
  /\ UNCHANGED <<valVars, extVars, shape, req, recvd, sent, iter, summaryReq, herr, runs, wire>>

\* DoWorkClientStreaming from the return of load.Run: failed++ or success++.
ClientStreamingCount ==
  /\ shape = "cstream" /\ hpc = "run" /\ pc = "done"
  /\ counts' = IF result # Nil THEN [counts EXCEPT !.failed = @ + 1]
               ELSE [counts EXCEPT !.success = @ + 1]
  /\ outcomes' = Append(outcomes, result)
  /\ hpc' = "recv"
  /\ EngineReset /\ UNCHANGED parent
  /\ UNCHANGED <<valVars, extVars, shape, req, recvd, sent, iter, summaryReq, herr, runs, wire>>

\* DoWorkBidiStreaming answering nothing to an untranslatable request.
BidiStreamingRecv_noReply ==
  /\ shape = "bidi" /\ hpc = "recv"
  /\ \/ /\ herr' = Nil /\ hpc' = "returned"
        /\ wire' = Append(wire, "eof")
        /\ UNCHANGED <<recvd, sent, outcomes, runs, engineVars>>
     \/ /\ herr' = ErrRecv /\ hpc' = "returned"
        /\ wire' = Append(wire, "recv-err")
        /\ UNCHANGED <<recvd, sent, outcomes, runs, engineVars>>
     \/ /\ Len(recvd) < MaxItems
        /\ \E r \in StreamRequests :
             /\ recvd' = Append(recvd, r)
             /\ wire' = Append(wire, "recv")
             /\ IF workConfigFromProto(r.Config).err # Nil
                THEN /\ outcomes' = Append(outcomes, workConfigFromProto(r.Config).err)
                     /\ hpc' = "recv"
                     /\ UNCHANGED <<sent, herr, runs, engineVars>>
                ELSE /\ RunEnter(workConfigFromProto(r.Config).cfg)
                     /\ runs' = runs + 1 /\ hpc' = "run"
                     /\ UNCHANGED <<sent, outcomes, herr>>
  /\ UNCHANGED <<valVars, extVars, shape, req, iter, counts, summaryReq>>

\* DoWorkBidiStreaming: stream.Recv returning io.EOF, an error, or a request
\* (then the translation and either the call of load.Run or the Send of the
\* translation error).
BidiStreamingRecv ==
  /\ shape = "bidi" /\ hpc = "recv"
  /\ \/ /\ herr' = Nil /\ hpc' = "returned"
        /\ wire' = Append(wire, "eof")
        /\ UNCHANGED <<recvd, sent, outcomes, runs, engineVars>>
     \/ /\ herr' = ErrRecv /\ hpc' = "returned"
        /\ wire' = Append(wire, "recv-err")
        /\ UNCHANGED <<recvd, sent, outcomes, runs, engineVars>>
     \/ /\ Len(recvd) < MaxItems
        /\ \E r \in StreamRequests :
             /\ recvd' = Append(recvd, r)
             /\ IF workConfigFromProto(r.Config).err # Nil
                THEN /\ outcomes' = Append(outcomes, workConfigFromProto(r.Config).err)
                     /\ \E ok \in BOOLEAN :
                          IF ok
                          THEN /\ sent' = Append(sent, Response(r.RequestId, FALSE,
                                                 workConfigFromProto(r.Config).err))
                               /\ hpc' = "recv"
                               /\ wire' = wire \o <<"recv", "send">>
                               /\ UNCHANGED herr
                          ELSE /\ herr' = ErrSend /\ hpc' = "returned"
                               /\ wire' = wire \o <<"recv", "send-err">>
                               /\ UNCHANGED sent
                     /\ UNCHANGED <<runs, engineVars>>
                ELSE /\ RunEnter(workConfigFromProto(r.Config).cfg)
                     /\ runs' = runs + 1 /\ hpc' = "run"
                     /\ wire' = Append(wire, "recv")
                     /\ UNCHANGED <<sent, outcomes, herr>>
  /\ UNCHANGED <<valVars, extVars, shape, req, iter, counts, summaryReq>>

\* DoWorkBidiStreaming going on to the next Recv after a failed Send.
BidiStreamingSend_ignoreSendError ==
  /\ shape = "bidi" /\ hpc = "run" /\ pc = "done"
  /\ outcomes' = Append(outcomes, result)
  /\ \E ok \in BOOLEAN :
       IF ok
       THEN /\ sent' = Append(sent, runResponse(recvd[Len(recvd)].RequestId, result))
            /\ wire' = Append(wire, "send")
       ELSE /\ wire' = Append(wire, "send-err")
            /\ UNCHANGED sent
  /\ hpc' = "recv"
  /\ UNCHANGED herr
  /\ EngineReset /\ UNCHANGED parent
  /\ UNCHANGED <<valVars, extVars, shape, req, recvd, iter, counts, summaryReq, runs>>

\* DoWorkBidiStreaming from the return of load.Run: the response and Send.
BidiStreamingSend ==
  /\ shape = "bidi" /\ hpc = "run" /\ pc = "done"
  /\ outcomes' = Append(outcomes, result)
  /\ \E ok \in BOOLEAN :
       IF ok
       THEN /\ sent' = Append(sent, runResponse(recvd[Len(recvd)].RequestId, result))
            /\ hpc' = "recv"
            /\ wire' = Append(wire, "send")
            /\ UNCHANGED herr
       ELSE /\ herr' = ErrSend /\ hpc' = "returned"
            /\ wire' = Append(wire, "send-err")
            /\ UNCHANGED sent
  /\ EngineReset /\ UNCHANGED parent
  /\ UNCHANGED <<valVars, extVars, shape, req, recvd, iter, counts, summaryReq, runs>>

\* One call of one of the four RPCs, with a live context.
InitRPC ==
  /\ vcfg = ZeroConfig /\ vlim = DefaultLimits /\ vres = "none"
  /\ InitRun /\ parent = "live"
  /\ shape \in Shapes
  /\ hpc = IF shape \in {"cstream", "bidi"} THEN "recv" ELSE "start"
  /\ req \in CASE shape = "unary" ->
                    {NilReq} \cup {Request(id, c, 0) : id \in RequestIds, c \in WireConfigs}
               [] shape = "sstream" ->
                    {NilReq} \cup UNION {{Request(id, c, n) : id \in RequestIds,
                                                             c \in WireConfigs} :
                                         n \in Repeats}
               [] OTHER -> {NilReq}
  /\ recvd = <<>> /\ sent = <<>> /\ outcomes = <<>>
  /\ iter = 0 /\ counts = [total |-> 0, success |-> 0, failed |-> 0]
  /\ summaryReq = "" /\ herr = "none" /\ runs = 0 /\ wire = <<>>
  /\ NoExt

\* The steps of load.Run and of its workers inside a handler.
NextRPC ==
  \/ CallCancel \/ DeadlineExpires
  \/ SleepTimer \/ SleepCancelled \/ Inject \/ StartWorkers \/ Wait \/ CPUExit
  \/ DoWork \/ DoWorkReturn
  \/ DoWorkServerStreaming \/ ServerStreamingIterate \/ ServerStreamingSend
  \/ ClientStreamingRecv \/ ClientStreamingCount
  \/ BidiStreamingRecv \/ BidiStreamingSend

SpecRPC == InitRPC /\ [][NextRPC]_vars

\* ----------------------------------------------------- workConfigFromProto
\* The argument of one call of workConfigFromProto.
InitTranslate ==
  /\ vcfg = ZeroConfig /\ vlim = DefaultLimits /\ vres = "none"
  /\ InitRun /\ parent = "nil"
  /\ shape = "translate" /\ hpc = "start"
  /\ req \in {Request("", c, 0) : c \in TransConfigs}
  /\ recvd = <<>> /\ sent = <<>> /\ outcomes = <<>>
  /\ iter = 0 /\ counts = [total |-> 0, success |-> 0, failed |-> 0]
  /\ summaryReq = "" /\ herr = "none" /\ runs = 0 /\ wire = <<>>
  /\ NoExt

\* The call workConfigFromProto(req.GetConfig()).
TranslateCall ==
  /\ shape = "translate" /\ hpc = "start"
  /\ outcomes' = <<workConfigFromProto(req.Config).err>>
  /\ vcfg' = workConfigFromProto(req.Config).cfg
  /\ hpc' = "returned"
  /\ UNCHANGED <<vlim, vres, extVars, shape, req, recvd, sent, iter, counts, summaryReq, herr,
                 runs, wire, engineVars>>

\* Run's validateConfig on the config the translation returned.
TranslatedValidate ==
  /\ shape = "translate" /\ hpc = "returned" /\ outcomes[1] = Nil
  /\ ValidateCall

NextTranslate == TranslateCall \/ TranslatedValidate

SpecTranslate == InitTranslate /\ [][NextTranslate]_vars

\* --------------------------------------------------- workConfigFromOptions
\* One option set handed to workConfigFromOptions; what it returns goes to
\* workConfigFromProto and from there to validateConfig.
InitOptions ==
  /\ vcfg = ZeroConfig /\ vlim = DefaultLimits /\ vres = "none"
  /\ InitRun /\ parent = "nil"
  /\ shape = "translate" /\ hpc = "none" /\ req = NilReq
  /\ recvd = <<>> /\ sent = <<>> /\ outcomes = <<>>
  /\ iter = 0 /\ counts = [total |-> 0, success |-> 0, failed |-> 0]
  /\ summaryReq = "" /\ herr = "none" /\ runs = 0 /\ wire = <<>>
  /\ client \in {[NoClient EXCEPT !.pc = "start", !.opts = o] : o \in ClientOptions}
  /\ metrics = NoMetrics /\ wide = NoWide

\* wc, err := workConfigFromOptions(opts); the request carries wc.
OptionsCall ==
  /\ client.pc = "start"
  /\ client' = [client EXCEPT
                  !.pc = IF workConfigFromOptions(client.opts).err = Nil
                         THEN "called" ELSE "returned",
                  !.wc = workConfigFromOptions(client.opts).wc,
                  !.err = workConfigFromOptions(client.opts).err]
  /\ IF workConfigFromOptions(client.opts).err = Nil
     THEN /\ req' = Request("a", workConfigFromOptions(client.opts).wc, 0)
          /\ hpc' = "start"
     ELSE UNCHANGED <<req, hpc>>
  /\ UNCHANGED <<valVars, metrics, wide, shape, recvd, sent, outcomes, iter, counts,
                 summaryReq, herr, runs, wire, engineVars>>

NextOptions == OptionsCall \/ TranslateCall \/ TranslatedValidate

SpecOptions == InitOptions /\ [][NextOptions]_vars

\* ------------------------------------------ client and server on a stream
\* Option sets of the streaming calls: a valid config, a work-duration below
\* one millisecond, a latency with error rate 1, an error rate the draw
\* decides, and a work-duration that workConfigFromOptions rejects; repeat is
\* > 0 as parseOptions leaves it.
DuplexOptions ==
  {Options("cpu", 1000, 1, 0, FZero, n) : n \in 1 .. MaxItems}
  \cup {Options("cpu", 500, 1, 0, FZero, n) : n \in 1 .. MaxItems}
  \cup {Options("cpu", 1000, 1, 1000, FOne, n) : n \in 1 .. MaxItems}
  \cup {Options("cpu", 1000, 1, 0, F(1), n) : n \in 1 .. MaxItems}
  \cup {Options("cpu", 0, 1, 0, FZero, 1)}

\* A client about to make a client-streaming or a bidi call; the handler
\* starts when the stream is opened.
InitDuplex ==
  /\ vcfg = ZeroConfig /\ vlim = DefaultLimits /\ vres = "none"
  /\ InitRun /\ parent = "live"
  /\ shape \in {"cstream", "bidi"} /\ hpc = "none" /\ req = NilReq
  /\ recvd = <<>> /\ sent = <<>> /\ outcomes = <<>>
  /\ iter = 0 /\ counts = [total |-> 0, success |-> 0, failed |-> 0]
  /\ summaryReq = "" /\ herr = "none" /\ runs = 0 /\ wire = <<>>
  /\ client \in {[NoClient EXCEPT !.pc = "start", !.opts = o] : o \in DuplexOptions}
  /\ metrics = NoMetrics /\ wide = NoWide

\* What a step of the client leaves alone, hpc and parent apart.
serverVars ==
  <<valVars, metrics, wide, shape, req, recvd, sent, outcomes, iter, counts, summaryReq,
    herr, runs, wire, ctxCreated, deadlineFired, cancelled, runVars, cpuVars, memVars,
    ioVars>>

\* wc, err := workConfigFromOptions(opts), then the opening of the stream.
ClientOpen ==
  /\ client.pc = "start"
  /\ IF workConfigFromOptions(client.opts).err # Nil
     THEN /\ client' = [client EXCEPT !.pc = "cancel",
                                      !.err = workConfigFromOptions(client.opts).err]
          /\ UNCHANGED hpc
     ELSE /\ client' = [client EXCEPT !.pc = "send",
                                      !.wc = workConfigFromOptions(client.opts).wc]
          /\ hpc' = "recv"
  /\ UNCHANGED <<parent, serverVars>>

\* callDoWorkBidiStreaming waiting for a response before it sends a request.
BidiClientSend_recvFirst ==
  /\ shape = "bidi" /\ client.pc = "send"
  /\ IF client.sent < client.opts.Repeat
     THEN /\ client.received < Len(sent)
          /\ \E id \in RequestIds \ {""} :
               client' = [client EXCEPT !.pc = "send", !.sent = @ + 1,
                                        !.received = @ + 1,
                                        !.reqs = Append(@, Request(id, client.wc, 0))]
     ELSE client' = [client EXCEPT !.pc = "close"]
  /\ UNCHANGED <<hpc, parent, serverVars>>

\* callDoWorkBidiStreaming at the head of its loop: the Send of one more
\* request and sent++, or the end of the loop.
BidiClientSend ==
  /\ shape = "bidi" /\ client.pc = "send"
  /\ IF client.sent < client.opts.Repeat
     THEN \E id \in RequestIds \ {""} :
            client' = [client EXCEPT !.pc = "recv", !.sent = @ + 1,
                                     !.reqs = Append(@, Request(id, client.wc, 0))]
     ELSE client' = [client EXCEPT !.pc = "close"]
  /\ UNCHANGED <<hpc, parent, serverVars>>

\* stream.Recv() of callDoWorkBidiStreaming: the next response and
\* received++, or, once the handler has returned and every response is read,
\* io.EOF (break) or the handler's error (return).
BidiClientRecv ==
  /\ shape = "bidi" /\ client.pc = "recv"
  /\ IF client.received < Len(sent)
     THEN client' = [client EXCEPT !.pc = "send", !.received = @ + 1]
     ELSE /\ hpc = "returned"
          /\ IF herr = Nil
             THEN client' = [client EXCEPT !.pc = "close"]
             ELSE client' = [client EXCEPT !.pc = "cancel", !.err = herr]
  /\ UNCHANGED <<hpc, parent, serverVars>>

\* stream.CloseSend() of callDoWorkBidiStreaming, after which it returns nil.
BidiClientCloseSend ==
  /\ shape = "bidi" /\ client.pc = "close"
  /\ client' = [client EXCEPT !.pc = "cancel", !.closed = TRUE]
  /\ UNCHANGED <<hpc, parent, serverVars>>

\* callDoWorkClientStreaming at the head of its loop: the Send of one more
\* request and sent++, or the end of the loop.
ClientStreamSend ==
  /\ shape = "cstream" /\ client.pc = "send"
  /\ IF client.sent < client.opts.Repeat
     THEN \E id \in RequestIds \ {""} :
            client' = [client EXCEPT !.sent = @ + 1,
                                     !.reqs = Append(@, Request(id, client.wc, 0))]
     ELSE client' = [client EXCEPT !.pc = "close"]
  /\ UNCHANGED <<hpc, parent, serverVars>>

\* stream.CloseAndRecv(): the half-close.
ClientStreamClose ==
  /\ shape = "cstream" /\ client.pc = "close"
  /\ client' = [client EXCEPT !.pc = "recv", !.closed = TRUE]
  /\ UNCHANGED <<hpc, parent, serverVars>>

\* stream.CloseAndRecv(): the summary of the server, or the handler's error.
ClientStreamRecv ==
  /\ shape = "cstream" /\ client.pc = "recv"
  /\ hpc = "returned"
  /\ IF herr = Nil
     THEN client' = [client EXCEPT !.pc = "cancel", !.summary = sent]
     ELSE client' = [client EXCEPT !.pc = "cancel", !.err = herr]
  /\ UNCHANGED <<hpc, parent, serverVars>>

\* The call function returns; its deferred cancel() cancels the context of
\* the call.
ClientReturn ==
  /\ client.pc = "cancel"
  /\ client' = [client EXCEPT !.pc = "returned",
                              !.err = IF @ = "none" THEN Nil ELSE @]
  /\ parent' = "cancelled"
  /\ UNCHANGED <<hpc, serverVars>>

\* The stream with no transport error: the server's Recv returns the
\* client's requests in the order of their Send and io.EOF after the
\* half-close, and no Recv, Send or SendAndClose fails.
StreamDelivers ==
  /\ \A k \in 1 .. Len(wire') : wire'[k] \notin {"recv-err", "send-err"}
  /\ IF Len(recvd) < Len(client.reqs)
     THEN recvd' = Append(recvd, client.reqs[Len(recvd) + 1])
     ELSE client.closed /\ recvd' = recvd

\* The handlers on that stream.
DuplexClientStreamingRecv == ClientStreamingRecv /\ StreamDelivers
DuplexBidiStreamingRecv == BidiStreamingRecv /\ StreamDelivers
DuplexBidiStreamingSend == BidiStreamingSend /\ wire'[Len(wire')] # "send-err"

NextDuplex ==
  \/ ClientOpen \/ ClientReturn
  \/ BidiClientSend \/ BidiClientRecv \/ BidiClientCloseSend
  \/ ClientStreamSend \/ ClientStreamClose \/ ClientStreamRecv
  \/ DuplexClientStreamingRecv \/ ClientStreamingCount
  \/ DuplexBidiStreamingRecv \/ DuplexBidiStreamingSend
  \/ DeadlineExpires
  \/ SleepTimer \/ SleepCancelled \/ Inject \/ StartWorkers \/ Wait \/ CPUExit

\* The client and the handler are goroutines that run when they can, the
\* timers fire and the workers are scheduled.
SpecDuplex ==
  /\ InitDuplex /\ [][NextDuplex]_vars
  /\ WF_vars(ClientOpen) /\ WF_vars(ClientReturn)
  /\ WF_vars(BidiClientSend) /\ WF_vars(BidiClientRecv) /\ WF_vars(BidiClientCloseSend)
  /\ WF_vars(ClientStreamSend) /\ WF_vars(ClientStreamClose) /\ WF_vars(ClientStreamRecv)
  /\ WF_vars(DuplexClientStreamingRecv) /\ WF_vars(ClientStreamingCount)
  /\ WF_vars(DuplexBidiStreamingRecv) /\ WF_vars(DuplexBidiStreamingSend)
  /\ WF_vars(DeadlineExpires) /\ WF_vars(SleepTimer) /\ WF_vars(SleepCancelled)
  /\ WF_vars(Inject) /\ WF_vars(StartWorkers) /\ WF_vars(Wait) /\ WF_vars(CPUExit)

\* ------------------------------------------- duration_ms at 64-bit width
\* One unary call whose config is valid but for its duration_ms, on a live
\* context and with error rate 0.
InitWide ==
  /\ vcfg = ZeroConfig /\ vlim = DefaultLimits /\ vres = "none"
  /\ InitRun /\ parent = "nil"
  /\ NoRPC
  /\ client = NoClient /\ metrics = NoMetrics
  /\ wide \in {[NoWide EXCEPT !.pc = "start", !.ms = m] : m \in WideInputs}

\* workConfigFromProto computes cfg.Duration.
WideTranslate ==
  /\ wide.pc = "start"
  /\ wide' = [wide EXCEPT !.pc = "translated", !.d = durationOf(wide.ms)]
  /\ UNCHANGED <<valVars, client, metrics, rpcVars, engineVars>>

\* Run calls validateConfig, whose first two tests read cfg.Duration.
WideValidate ==
  /\ wide.pc = "translated"
  /\ wide' = [wide EXCEPT !.pc = "validated", !.res = validateDuration(wide.d)]
  /\ UNCHANGED <<valVars, client, metrics, rpcVars, engineVars>>

\* DoWork answers ok = false when Run returned an error, ok = true otherwise.
WideRespond ==
  /\ wide.pc = "validated"
  /\ wide' = [wide EXCEPT !.pc = "returned", !.ok = (wide.res = Nil)]
  /\ UNCHANGED <<valVars, client, metrics, rpcVars, engineVars>>

NextWide == WideTranslate \/ WideValidate \/ WideRespond

SpecWide == InitWide /\ [][NextWide]_vars

\* --------------------------------------------------- metrics interceptors
\* Concurrent calls through the interceptors; nothing else is in the picture.
InitMetrics ==
  /\ vcfg = ZeroConfig /\ vlim = DefaultLimits /\ vres = "none"
  /\ InitRun /\ parent = "nil"
  /\ NoRPC /\ NoExt

nonMetrics == <<valVars, client, wide, rpcVars, engineVars>>

\* UnaryMetricsInterceptor up to the call of the handler: Inc of the
\* in-flight gauge of (mode, endpoint), with the Dec deferred.
UnaryEnter(i) ==
  /\ metrics.calls[i].pc = "idle"
  /\ \E e \in UnaryEndpoints :
       metrics' = [metrics EXCEPT !.calls[i].pc = "handler",
                                  !.calls[i].endpoint = e,
                                  !.inFlight[e] = @ + 1]
  /\ UNCHANGED nonMetrics

\* resp, err := handler(ctx, req) returns.
UnaryHandler(i) ==
  /\ metrics.calls[i].pc = "handler"
  /\ metrics.calls[i].endpoint \in UnaryEndpoints
  /\ \E o \in UnaryOutputs :
       metrics' = [metrics EXCEPT !.calls[i].pc = "handled", !.calls[i].out = o]
  /\ UNCHANGED nonMetrics

\* The code is read off err; Inc of the request counter of (mode, endpoint,
\* code) and Observe on the histogram.
UnaryCount(i) ==
  /\ metrics.calls[i].pc = "handled"
  /\ metrics.calls[i].endpoint \in UnaryEndpoints
  /\ LET c == metrics.calls[i] IN
       metrics' = [metrics EXCEPT !.calls[i].pc = "counted",
                                  !.calls[i].incs = @ + 1,
                                  !.total[c.endpoint][codeOf(c.out.err)] = @ + 1,
                                  !.observed[c.endpoint] = @ + 1]
  /\ UNCHANGED nonMetrics

\* UnaryMetricsInterceptor returning with the deferred Dec left out.
UnaryReturn_noDec(i) ==
  /\ metrics.calls[i].pc = "counted"
  /\ metrics.calls[i].endpoint \in UnaryEndpoints
  /\ LET c == metrics.calls[i] IN
       metrics' = [metrics EXCEPT !.calls[i].pc = "returned",
                                  !.calls[i].ret = c.out]
  /\ UNCHANGED nonMetrics

\* return resp, err, and the deferred Dec of the in-flight gauge.
UnaryReturn(i) ==
  /\ metrics.calls[i].pc = "counted"
  /\ metrics.calls[i].endpoint \in UnaryEndpoints
  /\ LET c == metrics.calls[i] IN
       metrics' = [metrics EXCEPT !.calls[i].pc = "returned",
                                  !.calls[i].ret = c.out,
                                  !.inFlight[c.endpoint] = @ - 1]
  /\ UNCHANGED nonMetrics

\* StreamMetricsInterceptor up to the call of the handler.
StreamEnter(i) ==
  /\ metrics.calls[i].pc = "idle"
  /\ \E e \in StreamEndpoints :
       metrics' = [metrics EXCEPT !.calls[i].pc = "handler",
                                  !.calls[i].endpoint = e,
                                  !.inFlight[e] = @ + 1]
  /\ UNCHANGED nonMetrics

\* err := handler(srv, ss) returns.
StreamHandler(i) ==
  /\ metrics.calls[i].pc = "handler"
  /\ metrics.calls[i].endpoint \in StreamEndpoints
  /\ \E o \in StreamOutputs :
       metrics' = [metrics EXCEPT !.calls[i].pc = "handled", !.calls[i].out = o]
  /\ UNCHANGED nonMetrics

\* Inc of the request counter and Observe on the histogram.
StreamCount(i) ==
  /\ metrics.calls[i].pc = "handled"
  /\ metrics.calls[i].endpoint \in StreamEndpoints
  /\ LET c == metrics.calls[i] IN
       metrics' = [metrics EXCEPT !.calls[i].pc = "counted",
                                  !.calls[i].incs = @ + 1,
                                  !.total[c.endpoint][codeOf(c.out.err)] = @ + 1,
                                  !.observed[c.endpoint] = @ + 1]
  /\ UNCHANGED nonMetrics

\* return err, and the deferred Dec of the in-flight gauge.
StreamReturn(i) ==
  /\ metrics.calls[i].pc = "counted"
  /\ metrics.calls[i].endpoint \in StreamEndpoints
  /\ LET c == metrics.calls[i] IN
       metrics' = [metrics EXCEPT !.calls[i].pc = "returned",
                                  !.calls[i].ret = c.out,
                                  !.inFlight[c.endpoint] = @ - 1]
  /\ UNCHANGED nonMetrics

NextMetrics ==
  \/ \E i \in Calls : UnaryEnter(i)
  \/ \E i \in Calls : UnaryHandler(i)
  \/ \E i \in Calls : UnaryCount(i)
  \/ \E i \in Calls : UnaryReturn(i)
  \/ \E i \in Calls : StreamEnter(i)
  \/ \E i \in Calls : StreamHandler(i)
  \/ \E i \in Calls : StreamCount(i)
  \/ \E i \in Calls : StreamReturn(i)

SpecMetrics == InitMetrics /\ [][NextMetrics]_vars

\* ---------------------------------------------------------- specifications
Next ==
  \/ ParentCancel \/ DeadlineExpires
  \/ RunCall \/ SleepTimer \/ SleepCancelled \/ Inject \/ StartWorkers \/ Wait
  \/ Return
  \/ CPUExit \/ MemAlloc \/ MemExit
  \/ IOCreate \/ IOLoop \/ IOWrite \/ IOSync

Spec == Init /\ [][Next]_vars

\* Valid configs of every mode, for the runs whose termination is checked.
LiveConfigs ==
  [Mode : KnownModes, Duration : {1}, AllocMB : {1}, Parallelism : {2},
   IOBytes : {chunkSize + 1}, Latency : {0, 1},
   ErrorRate : {FZero, F(1), FOne}, Rand : {NilRand}]

\* A call of Run on its own, with a valid config.
RunCallValid ==
  /\ pc = "idle"
  /\ \E c \in LiveConfigs : RunEnter(c)
  /\ UNCHANGED <<valVars, extVars, rpcVars>>

NextLive ==
  \/ ParentCancel \/ DeadlineExpires
  \/ RunCallValid \/ SleepTimer \/ SleepCancelled \/ Inject \/ StartWorkers \/ Wait
  \/ Return
  \/ CPUExit \/ MemAlloc \/ MemExit
  \/ IOCreate \/ IOLoop \/ IOWrite \/ IOSync

\* Run under fair scheduling: the goroutine of Run and every worker
\* goroutine keep being scheduled, and the runtime's timers fire.
SpecLive ==
  /\ Init /\ [][NextLive]_vars
  /\ WF_vars(DeadlineExpires) /\ WF_vars(SleepTimer) /\ WF_vars(SleepCancelled)
  /\ WF_vars(Inject) /\ WF_vars(StartWorkers) /\ WF_vars(Wait)
  /\ WF_vars(CPUExit) /\ WF_vars(MemAlloc) /\ WF_vars(MemExit)
  /\ WF_vars(IOCreate) /\ WF_vars(IOLoop) /\ WF_vars(IOWrite) /\ WF_vars(IOSync)

\* validateConfig on its own, under arbitrary limits.
SpecValidate == InitValidate /\ [][ValidateCall]_vars

\* ------------------------------------------------------------------ claims
Valid(c) == validateConfig(c, DefaultLimits) = Nil
InLog(e) == \E i \in 1 .. Len(log) : log[i] = e

\* C1: a run of a spec that passes validation and in which the injector did
\* not fire returns success, in every mode and however the run ended.
C1_SuccessUnlessInvalidOrInjected ==
  (pc = "done" /\ Valid(cfg) /\ ~injected) => result = Nil

C1_Witness ==
  /\ pc = "done" /\ result = Nil /\ cfg.Mode = ModeCPUMem
  /\ parent = "cancelled" /\ ~deadlineFired

\* C2 as stated: every run of a spec with errorRate >= 1 returns ErrInjected.
C2_Original ==
  (pc = "done" /\ FGe(cfg.ErrorRate, FOne)) => result = ErrInjected

\* C2 amended: every run of a spec that passes validation and has
\* errorRate >= 1 returns ErrInjected, in every mode.
C2_ValidRateOneInjected ==
  (pc = "done" /\ Valid(cfg) /\ FGe(cfg.ErrorRate, FOne)) => result = ErrInjected

C2_Witness ==
  /\ pc = "done" /\ result = ErrInjected /\ cfg.ErrorRate = FOne
  /\ cfg.Mode = ModeIO /\ draws = 0

\* C3: a run of a spec with errorRate <= 0 never returns ErrInjected,
\* whatever the random source returns.
C3_RateZeroNeverInjected ==
  (pc # "idle" /\ FLe(cfg.ErrorRate, FZero)) => (result # ErrInjected /\ ~injected)

C3_Witness ==
  /\ pc = "done" /\ result = Nil /\ cfg.ErrorRate = FZero
  /\ ~cfg.Rand.nil /\ FLt(cfg.Rand.v, FZero)

\* C4: for a valid spec with 0 < errorRate < 1 and a fixed random source
\* returning v, Run returns ErrInjected iff v < errorRate.
C4_InjectedIffDrawBelowRate ==
  (/\ pc = "done" /\ Valid(cfg) /\ ~cfg.Rand.nil
   /\ FLt(FZero, cfg.ErrorRate) /\ FLt(cfg.ErrorRate, FOne))
  => /\ (result = ErrInjected) <=> FLt(cfg.Rand.v, cfg.ErrorRate)
     /\ result \in {ErrInjected, Nil}

C4_Witness ==
  /\ pc = "done" /\ result = Nil /\ ~cfg.Rand.nil
  /\ FLt(FZero, cfg.ErrorRate) /\ FLt(cfg.ErrorRate, FOne)
  /\ cfg.Rand.v = cfg.ErrorRate

\* errorRate is a member of the interval [0, 1].
InUnit(e) == FLe(FZero, e) /\ FLe(e, FOne)

\* The rules C5 lists, and the three limits.
C5_Violates(c, l) ==
  \/ c.Duration <= 0
  \/ c.Mode \in {ModeCPU, ModeCPUMem} /\ c.Parallelism <= 0
  \/ c.Mode \in {ModeMem, ModeCPUMem} /\ c.AllocMB <= 0
  \/ c.Mode = ModeIO /\ c.IOBytes <= 0
  \/ c.Latency < 0
  \/ ~InUnit(c.ErrorRate)
  \/ l.MaxDuration > 0 /\ c.Duration > l.MaxDuration
  \/ l.MaxAllocMB > 0 /\ c.AllocMB > l.MaxAllocMB
  \/ l.MaxParallelism > 0 /\ c.Parallelism > l.MaxParallelism

\* C5: for each of the four modes validateConfig rejects a spec exactly when
\* it breaks one of the listed rules (duration, parallelism, allocMB,
\* ioBytes, latency, errorRate outside [0, 1]) or a limit.
C5_RejectsExactlyTheListed ==
  (vres # "none" /\ vcfg.Mode \in KnownModes)
  => ((vres # Nil) <=> C5_Violates(vcfg, vlim))

\* C6: a duration above a positive MaxDuration is rejected with
\* ErrDurationTooLarge whatever the mode and the other fields are.
C6_DurationLimitFirst ==
  (vres # "none" /\ vlim.MaxDuration > 0 /\ vcfg.Duration > vlim.MaxDuration)
  => vres = ErrDurationTooLarge

C6_Witness ==
  /\ vres = ErrDurationTooLarge /\ vcfg.Mode \notin KnownModes
  /\ vcfg.Latency < 0 /\ vcfg.ErrorRate = NaN
  /\ vcfg.AllocMB > vlim.MaxAllocMB /\ vlim.MaxAllocMB > 0

\* C7: the result of validateConfig does not depend on the fields the mode
\* does not use (allocMB, ioBytes for CPU; parallelism, ioBytes for MEM;
\* allocMB, parallelism for IO).
C7_UnusedFieldsIgnored ==
  vres # "none" =>
    /\ vcfg.Mode = ModeCPU =>
         \A a \in {0, 1, DefaultLimits.MaxAllocMB + 1}, b \in {0, 1} :
           validateConfig([vcfg EXCEPT !.AllocMB = a, !.IOBytes = b], vlim) = vres
    /\ vcfg.Mode = ModeMem =>
         \A n \in {0, 1, DefaultLimits.MaxParallelism + 1}, b \in {0, 1} :
           validateConfig([vcfg EXCEPT !.Parallelism = n, !.IOBytes = b], vlim) = vres
    /\ vcfg.Mode = ModeIO =>
         \A a \in {0, 1, DefaultLimits.MaxAllocMB + 1},
            n \in {0, 1, DefaultLimits.MaxParallelism + 1} :
           validateConfig([vcfg EXCEPT !.AllocMB = a, !.Parallelism = n], vlim) = vres

\* C8: a zero field of Limits is no limit: with MaxDuration = 0 nothing is
\* rejected with ErrDurationTooLarge, with MaxAllocMB = 0 nothing with
\* ErrAllocTooLarge, with MaxParallelism = 0 nothing with
\* ErrParallelismTooHigh.
C8_ZeroLimitUnbounded ==
  vres # "none" =>
    /\ vlim.MaxDuration = 0 => vres # ErrDurationTooLarge
    /\ vlim.MaxAllocMB = 0 => vres # ErrAllocTooLarge
    /\ vlim.MaxParallelism = 0 => vres # ErrParallelismTooHigh

C8_Witness ==
  /\ vres = Nil /\ vcfg.Mode = ModeCPUMem
  /\ vlim.MaxDuration = 0 /\ vcfg.Duration > DefaultLimits.MaxDuration
  /\ vlim.MaxAllocMB = 0 /\ vcfg.AllocMB > DefaultLimits.MaxAllocMB
  /\ vlim.MaxParallelism = 0 /\ vcfg.Parallelism > DefaultLimits.MaxParallelism

\* C9: when validation fails Run returns the validation error and has done
\* nothing else: no run context, no sleep, no draw, no worker, no memory and
\* no temporary file.
C9_ValidationFailureNoEffect ==
  (pc # "idle" /\ ~Valid(cfg)) =>
    /\ pc = "done" /\ result = validateConfig(cfg, DefaultLimits)
    /\ log = <<"validate">>
    /\ ~ctxCreated /\ ~deadlineFired /\ ~cancelled
    /\ draws = 0 /\ ~injected
    /\ cpuStarted = 0 /\ cpuRunning = 0 /\ mem = "none" /\ io = "none"
    /\ memAllocated = 0 /\ filesCreated = 0 /\ ~fileExists

C9_Witness ==
  /\ pc = "done" /\ result = ErrDurationTooLarge
  /\ cfg.Mode = ModeCPU /\ cfg.Parallelism = 1 /\ cfg.Latency > 0

\* C10: in a run that returns ErrInjected the fault decision comes after the
\* latency sleep was entered and left (when latency > 0), and no worker is
\* started, no memory allocated and no temporary file created.
C10_InjectedAfterSleepBeforeWork ==
  result = ErrInjected =>
    /\ cfg.Latency > 0 =>
         \E i, j, k \in 1 .. Len(log) :
           /\ i < j /\ j < k
           /\ log[i] = "sleep" /\ log[j] \in {"wake-timer", "wake-ctx"}
           /\ log[k] = "decide"
    /\ \A i, k \in 1 .. Len(log) :
         (log[i] \in {"sleep", "wake-timer", "wake-ctx"} /\ log[k] = "decide") => i < k
    /\ ~InLog("start")
    /\ cpuStarted = 0 /\ cpuRunning = 0 /\ mem = "none" /\ io = "none"
    /\ memAllocated = 0 /\ memChunks = 0 /\ filesCreated = 0 /\ ~fileExists

C10_Witness ==
  /\ result = ErrInjected /\ cfg.Latency > 0 /\ InLog("wake-timer")
  /\ cfg.Mode = ModeCPUMem /\ draws = 1

\* C11: when Run has returned, every worker it started has terminated.
C11_ReturnedImpliesWorkersDone ==
  pc = "done" =>
    /\ wg = 0 /\ cpuRunning = 0
    /\ mem \in {"none", "done"} /\ io \in {"none", "done"}

C11_Witness ==
  /\ pc = "done" /\ result = Nil /\ cpuStarted = 2 /\ mem = "done"
  /\ memAllocated > 0

\* C12: a run of a valid spec terminates: once the run context is cancelled
\* every started worker exits, and every call of Run returns.
C12_RunTerminates ==
  /\ (ctxDone /\ wg > 0) ~> (wg = 0)
  /\ (pc \in {"sleep", "inject", "start", "wait"}) ~> (pc = "done")

C12_Witness ==
  /\ pc = "done" /\ result = Nil /\ deadlineFired /\ parent # "cancelled"
  /\ cpuStarted = 2 /\ mem = "done"

\* C13: when the caller's context is cancelled, before or during Run, Run on
\* a valid spec returns nil or ErrInjected, never a cancellation error.
C13_ParentCancelNoError ==
  (pc = "done" /\ parent = "cancelled" /\ Valid(cfg)) =>
    /\ result \in {Nil, ErrInjected}
    /\ result = ErrInjected <=> injected

C13_Witness ==
  /\ pc = "done" /\ parent = "cancelled" /\ ~deadlineFired /\ InLog("wake-ctx")
  /\ result = Nil /\ cfg.Mode = ModeCPU /\ cpuStarted > 0

\* Helpers of the handler claims.
Translates(r) == workConfigFromProto(r.Config).err = Nil

IsPrefix(a, b) == Len(a) <= Len(b) /\ SubSeq(b, 1, Len(a)) = a

NumFailed == Cardinality({i \in 1 .. Len(outcomes) : outcomes[i] # Nil})

\* C14 as stated: in the streaming shapes, a call context cancelled before the
\* handler has finished makes the handler return an error rather than success.
C14_Original ==
  (shape \in {"sstream", "cstream", "bidi"} /\ hpc = "returned" /\ parent = "cancelled")
    => herr # Nil

\* C14 amended: in server-streaming a call context that is cancelled when an
\* iteration starts makes the handler return the context's error without
\* another Run or Send, so that it returns success after a cancellation only
\* when all repeat items have been sent; client- and bidi-streaming do not
\* test the context and return an error only when Recv or Send returns one;
\* in every shape the items already sent stay sent.
C14_CancelSeenAtIterationAborts ==
  /\ [][/\ (shape = "sstream" /\ hpc = "loop" /\ iter < req.Repeat
                /\ parent = "cancelled")
             => (hpc' = "returned" /\ herr' = ErrCanceled /\ runs' = runs /\ sent' = sent)
        /\ IsPrefix(sent, sent')]_vars
  /\ []((shape = "sstream" /\ hpc = "returned" /\ parent = "cancelled" /\ herr = Nil)
          => (Len(sent) = req.Repeat /\ runs = req.Repeat))
  /\ []((shape \in {"cstream", "bidi"} /\ hpc = "returned")
          => herr \in {Nil, ErrSend, ErrRecv})

C14_Witness ==
  /\ shape = "sstream" /\ hpc = "returned"
  /\ parent = "cancelled" /\ herr = ErrCanceled
  /\ Len(sent) = 1 /\ runs = 1 /\ req.Repeat = 2

\* C15: an IO run leaves no temporary file: whenever the IO worker has
\* exited, and whenever Run has returned, every file created was removed.
C15_NoTempFileLeft ==
  /\ io \in {"none", "create", "done"} => (~fileExists /\ fileSize = 0)
  /\ pc = "done" => ~fileExists
  /\ filesCreated <= 1

C15_Witness ==
  /\ pc = "done" /\ cfg.Mode = ModeIO /\ filesCreated = 1 /\ ~fileExists
  /\ parent = "cancelled" /\ ~deadlineFired /\ remaining > 0

\* C16: server-streaming with repeat = n > 0 and a translatable config, not
\* cancelled and with no send error, returns success after exactly n Runs and
\* n items, item i carrying the request's id and the outcome of the i-th Run
\* (ok iff that Run returned nil), in iteration order.
C16_ServerStreamingSendsEachRun ==
  /\ shape = "sstream"
       => /\ Len(sent) <= Len(outcomes)
          /\ \A i \in 1 .. Len(sent) :
               sent[i] = Response(req.RequestId, outcomes[i] = Nil,
                                  IF outcomes[i] = Nil THEN "" ELSE outcomes[i])
  /\ (shape = "sstream" /\ hpc = "returned" /\ ~req.nil /\ req.Repeat > 0
        /\ Translates(req) /\ parent # "cancelled" /\ herr # ErrSend)
       => (herr = Nil /\ Len(sent) = req.Repeat /\ runs = req.Repeat
             /\ Len(outcomes) = req.Repeat)

C16_Witness ==
  /\ shape = "sstream" /\ hpc = "returned" /\ herr = Nil
  /\ parent = "live" /\ req.Repeat = 2 /\ Len(sent) = 2
  /\ req.RequestId = "a"
  /\ sent[1].Ok /\ ~sent[2].Ok /\ sent[2].ErrorMessage = ErrInjected

\* C17: server-streaming with a nil request or repeat <= 0 returns an error
\* before any Run is invoked and before any item is sent.
C17_BadRepeatFailsBeforeWork ==
  (shape = "sstream" /\ hpc # "start" /\ (req.nil \/ req.Repeat <= 0))
    => /\ hpc = "returned"
       /\ herr = (IF req.nil THEN ErrRequestNil ELSE ErrRepeat)
       /\ runs = 0 /\ sent = <<>> /\ pc = "idle" /\ log = <<>>

C17_Witness ==
  /\ shape = "sstream" /\ hpc = "returned"
  /\ ~req.nil /\ req.Repeat = 0 /\ Translates(req)
  /\ herr = ErrRepeat /\ runs = 0 /\ sent = <<>>

\* C18: no handler of the four shapes returns an error for a missing config,
\* an unrecognized mode or an injected error: the errors a handler returns are
\* the request checks, the cancellation and the stream failures only.
C18_NoConfigErrorAsHandlerError ==
  herr \in {"none", Nil, ErrRequestNil, ErrRepeat, ErrCanceled, ErrSend, ErrRecv}

\* C19: unary DoWork with a non-nil request invokes Run exactly once when the
\* translation succeeds and never when it fails, and returns no error but one
\* response with the request's id, ok iff translation and Run both succeeded,
\* and an empty errorMessage iff ok.
C19_UnaryOneRunOneResponse ==
  /\ shape = "unary" => runs <= 1
  /\ (shape = "unary" /\ ~req.nil /\ hpc = "run") => (Translates(req) /\ runs = 1)
  /\ (shape = "unary" /\ ~req.nil /\ hpc = "returned")
       => /\ herr = Nil
          /\ runs = (IF Translates(req) THEN 1 ELSE 0)
          /\ Len(sent) = 1 /\ Len(outcomes) = 1
          /\ sent[1].RequestId = req.RequestId
          /\ sent[1].Ok <=> (Translates(req) /\ outcomes[1] = Nil)
          /\ (sent[1].ErrorMessage = "") <=> sent[1].Ok

C19_Witness ==
  /\ shape = "unary" /\ hpc = "returned" /\ ~req.nil
  /\ Translates(req) /\ runs = 1
  /\ ~sent[1].Ok /\ sent[1].ErrorMessage = ErrInjected
  /\ sent[1].RequestId = "b"

\* C20: client-streaming, when the peer closes the stream after k items,
\* sends one summary with total = k, failed = the number of items whose
\* translation failed or whose Run returned an error, success = the others;
\* total = success + failed holds after every item.
C20_SummaryCountsEveryItem ==
  /\ (shape = "cstream" /\ hpc \in {"recv", "returned"})
       => /\ counts.total = Len(recvd)
          /\ Len(outcomes) = Len(recvd)
          /\ counts.failed = NumFailed
          /\ counts.success = Len(recvd) - NumFailed
          /\ counts.total = counts.success + counts.failed
  /\ shape = "cstream" => Len(sent) <= 1
  /\ (shape = "cstream" /\ hpc = "returned" /\ herr = Nil)
       => /\ Len(sent) = 1
          /\ sent[1].Total = Len(recvd)
          /\ sent[1].Failed = NumFailed
          /\ sent[1].Success = Len(recvd) - NumFailed

C20_Witness ==
  /\ shape = "cstream" /\ hpc = "returned" /\ herr = Nil
  /\ Len(recvd) = 2 /\ ~Translates(recvd[1]) /\ Translates(recvd[2])
  /\ sent[1].Total = 2 /\ sent[1].Failed = 1 /\ sent[1].Success = 1
  /\ runs = 1

\* C21: the requestId of the client-streaming summary is the id of the first
\* request received on the stream, whatever the ids of the received items.
C21_SummaryIdIsFirstRequestId ==
  /\ (shape = "cstream" /\ Len(recvd) > 0) => summaryReq = recvd[1].RequestId
  /\ (shape = "cstream" /\ hpc = "returned" /\ herr = Nil /\ Len(recvd) > 0)
       => sent[1].RequestId = recvd[1].RequestId

\* Returns of the stream that end a handler.
EndOfStream == {"eof", "recv-err", "send-err"}

\* C22: bidi-streaming alternates receive, run, send: the responses sent are
\* as many as the requests received or one less, response i carries the id of
\* request i, a request is read only after the response to the previous one
\* was sent, and a clean return leaves no request unanswered.
C22_BidiAlternates ==
  shape = "bidi"
    => /\ Len(sent) \in {Len(recvd), Len(recvd) - 1}
       /\ \A i \in 1 .. Len(sent) : sent[i].RequestId = recvd[i].RequestId
       /\ \A i \in 1 .. Len(wire) - 1 :
            /\ wire[i] = "recv" => wire[i + 1] \in {"send", "send-err"}
            /\ wire[i] = "send" => wire[i + 1] \in {"recv", "eof", "recv-err"}
       /\ hpc = "run" => (Len(sent) = Len(recvd) - 1 /\ wire[Len(wire)] = "recv")
       /\ hpc = "recv" => Len(sent) = Len(recvd)
       /\ runs <= Len(recvd)
       /\ (hpc = "returned" /\ herr = Nil) => Len(sent) = Len(recvd)

C22_Witness ==
  /\ shape = "bidi" /\ hpc = "returned" /\ herr = Nil
  /\ Len(recvd) = 2 /\ Len(sent) = 2
  /\ recvd[1].RequestId = "a" /\ recvd[2].RequestId = "b"
  /\ ~Translates(recvd[1]) /\ Translates(recvd[2]) /\ sent[2].Ok
  /\ wire = <<"recv", "send", "recv", "send", "eof">>

\* C23: bidi-streaming returns success exactly when Recv reports the end of
\* the stream; a Recv error or a Send error makes the handler return that
\* error at once, with no further Recv, Run or Send.
C23_BidiEndsOnEOFOrError ==
  /\ [](shape = "bidi"
          => /\ \A i \in 1 .. Len(wire) :
                  wire[i] \in EndOfStream => (i = Len(wire) /\ hpc = "returned")
             /\ hpc = "returned"
                  => /\ Len(wire) > 0 /\ pc = "idle"
                     /\ herr = CASE wire[Len(wire)] = "eof" -> Nil
                                 [] wire[Len(wire)] = "recv-err" -> ErrRecv
                                 [] wire[Len(wire)] = "send-err" -> ErrSend
                                 [] OTHER -> "none")
  /\ [][(shape = "bidi" /\ hpc = "returned")
          => UNCHANGED <<hpc, herr, recvd, sent, runs, wire, pc>>]_vars

C23_Witness ==
  /\ shape = "bidi" /\ hpc = "returned" /\ herr = ErrSend
  /\ wire = <<"recv", "send", "recv", "send-err">>
  /\ runs = 2 /\ Len(sent) = 1 /\ Len(recvd) = 2

Workers ==
  cpuStarted + (IF mem # "none" THEN 1 ELSE 0) + (IF io # "none" THEN 1 ELSE 0)

\* C25: Run starts parallelism workers in CPU mode, one in MEM mode, one in
\* IO mode and parallelism + 1 in CPU_MEM mode, and no worker of a kind the
\* mode does not name.
C25_WorkersPerMode ==
  /\ ~InLog("start") => Workers = 0
  /\ InLog("start")
       => /\ cfg.Mode = ModeCPU
               => (Workers = cfg.Parallelism /\ mem = "none" /\ io = "none")
          /\ cfg.Mode = ModeMem
               => (Workers = 1 /\ cpuStarted = 0 /\ io = "none")
          /\ cfg.Mode = ModeIO
               => (Workers = 1 /\ cpuStarted = 0 /\ mem = "none")
          /\ cfg.Mode = ModeCPUMem
               => (Workers = cfg.Parallelism + 1 /\ cpuStarted = cfg.Parallelism
                     /\ io = "none")
          /\ cfg.Mode \in KnownModes

C25_Witness ==
  /\ pc = "wait" /\ cfg.Mode = ModeCPUMem /\ cfg.Parallelism = 2
  /\ cpuStarted = 2 /\ cpuRunning = 2 /\ mem = "alloc" /\ io = "none"

\* C26: a CPU or MEM worker exits only after the run context is cancelled,
\* so a CPU, MEM or CPU_MEM run in which the injector does not fire does not
\* return before the duration deadline or a cancellation of the parent.
C26_NoEarlyReturn ==
  /\ [][(cpuRunning' < cpuRunning \/ (mem = "wait" /\ mem' = "done"))
          => (ctxCreated /\ (deadlineFired \/ parent = "cancelled"))]_vars
  /\ []((pc = "done" /\ Valid(cfg) /\ ~injected
           /\ cfg.Mode \in {ModeCPU, ModeMem, ModeCPUMem})
          => (result = Nil /\ (deadlineFired \/ parent = "cancelled")))

C26_Witness ==
  /\ pc = "done" /\ cfg.Mode = ModeCPU /\ cfg.Parallelism = 2
  /\ result = Nil /\ draws = 1 /\ ~injected
  /\ deadlineFired /\ parent = "live"

\* C27: a failure inside the IO worker ends that worker only: it leaves the
\* run context, the result and the other goroutines alone, Run returns
\* success, and it may do so before the duration deadline.
C27_IOFailureIsSilent ==
  /\ [][(io \in {"create", "loop", "write", "sync"} /\ io' = "done")
          => UNCHANGED <<pc, result, ctxVars, cpuVars, memVars>>]_vars
  /\ []((pc = "done" /\ Valid(cfg) /\ ~injected /\ cfg.Mode = ModeIO)
          => (result = Nil /\ io = "done" /\ ~fileExists))

C27_Witness ==
  /\ pc = "done" /\ cfg.Mode = ModeIO /\ result = Nil
  /\ ~deadlineFired /\ parent # "cancelled"
  /\ filesCreated = 1 /\ ~fileExists

\* The checks of validateConfig in front of the mode switch all pass.
CommonOk(c, l) ==
  /\ c.Duration > 0
  /\ ~(l.MaxDuration > 0 /\ c.Duration > l.MaxDuration)
  /\ c.Latency >= 0
  /\ ~(FLt(c.ErrorRate, FZero) \/ FGt(c.ErrorRate, FOne))

ModeRuleViolated(c) ==
  \/ c.Mode \in {ModeCPU, ModeCPUMem} /\ c.Parallelism <= 0
  \/ c.Mode \in {ModeMem, ModeCPUMem} /\ c.AllocMB <= 0
  \/ c.Mode = ModeIO /\ c.IOBytes <= 0

ModeErrors ==
  {ErrParallelismCPU, ErrAllocMem, ErrParallelismCPUMem, ErrAllocCPUMem, ErrIOBytes}

AllocOver(c, l) == l.MaxAllocMB > 0 /\ c.AllocMB > l.MaxAllocMB
ParallelismOver(c, l) == l.MaxParallelism > 0 /\ c.Parallelism > l.MaxParallelism

\* C28 as stated: whenever a spec violates both a mode-specific positivity
\* rule and an allocMB or parallelism limit, validateConfig reports the
\* mode-specific error; ErrAllocTooLarge comes before ErrParallelismTooHigh.
C28_Original ==
  /\ (vres # "none" /\ ModeRuleViolated(vcfg)
        /\ (AllocOver(vcfg, vlim) \/ ParallelismOver(vcfg, vlim)))
       => vres \in ModeErrors
  /\ (vres # "none" /\ AllocOver(vcfg, vlim) /\ ParallelismOver(vcfg, vlim))
       => vres # ErrParallelismTooHigh

\* C28 amended: a spec that passes the duration, latency and errorRate
\* checks and violates both a mode-specific positivity rule and an allocMB or
\* parallelism limit gets the mode-specific error (CPU_MEM with allocMB <= 0
\* and parallelism above the limit gets ErrAllocCPUMem); with no mode rule
\* violated and both limits exceeded it gets ErrAllocTooLarge.
C28_ModeChecksBeforeLimits ==
  /\ (vres # "none" /\ CommonOk(vcfg, vlim) /\ ModeRuleViolated(vcfg)
        /\ (AllocOver(vcfg, vlim) \/ ParallelismOver(vcfg, vlim)))
       => /\ vres \in ModeErrors
          /\ (vcfg.Mode = ModeCPUMem /\ vcfg.Parallelism > 0) => vres = ErrAllocCPUMem
  /\ (vres # "none" /\ CommonOk(vcfg, vlim) /\ vcfg.Mode \in KnownModes
        /\ ~ModeRuleViolated(vcfg)
        /\ AllocOver(vcfg, vlim) /\ ParallelismOver(vcfg, vlim))
       => vres = ErrAllocTooLarge
  /\ (vres # "none" /\ AllocOver(vcfg, vlim) /\ ParallelismOver(vcfg, vlim))
       => vres # ErrParallelismTooHigh

C28_Witness ==
  /\ vres = ErrAllocCPUMem /\ vcfg.Mode = ModeCPUMem
  /\ vcfg.AllocMB <= 0 /\ ParallelismOver(vcfg, vlim)
  /\ CommonOk(vcfg, vlim)

\* C29: when the run context is cancelled during the latency sleep, the
\* sleep ends and Run goes on as after a full sleep: it returns no error
\* because of the cancellation.
C29_CancelledSleepIsNoError ==
  /\ [][(pc = "sleep" /\ pc' # "sleep") => (pc' = "inject" /\ result' = result)]_vars
  /\ []((pc = "done" /\ InLog("wake-ctx"))
          => /\ result \in {Nil, ErrInjected}
             /\ result = ErrInjected <=> injected)

C29_Witness ==
  /\ pc = "done" /\ InLog("wake-ctx") /\ ~InLog("wake-timer")
  /\ deadlineFired /\ parent # "cancelled"
  /\ result = Nil /\ cfg.Mode = ModeMem /\ mem = "done"

\* The decision of the injector as a function of errorRate and one draw.
Decision(e, v) == ~FLe(e, FZero) /\ (FGe(e, FOne) \/ FLt(v, e))

NumDraws == Cardinality({i \in 1 .. Len(log) : log[i] = "draw"})

\* C30: the injector reads the random source at most once per run and not at
\* all when errorRate <= 0 or errorRate >= 1; its decision is a function of
\* errorRate and that draw only.
C30_OneDrawAtMost ==
  /\ draws <= 1 /\ NumDraws = draws
  /\ ~InLog("decide") => (draws = 0 /\ ~injected)
  /\ InLog("decide")
       => /\ (FLe(cfg.ErrorRate, FZero) \/ FGe(cfg.ErrorRate, FOne)) => draws = 0
          /\ ~cfg.Rand.nil => (injected <=> Decision(cfg.ErrorRate, cfg.Rand.v))
          /\ FLe(cfg.ErrorRate, FZero) => ~injected
          /\ FGe(cfg.ErrorRate, FOne) => injected

C30_Witness ==
  /\ pc = "done" /\ draws = 1 /\ injected /\ result = ErrInjected
  /\ cfg.Mode = ModeIO /\ cfg.Latency > 0 /\ ~cfg.Rand.nil

\* C31: in server-streaming, a context found cancelled at the head of an
\* iteration or a failed Send makes the handler return that error with no
\* further Run or Send; every Send follows exactly one Run of its iteration,
\* and the items sent are the outcomes of iterations 1..j in order, j <= repeat.
C31_ServerStreamingStopsOnError ==
  /\ [][/\ (shape = "sstream" /\ hpc = "loop" /\ iter < req.Repeat
              /\ parent = "cancelled")
             => (herr' = ErrCanceled /\ hpc' = "returned" /\ UNCHANGED <<runs, sent, wire>>)
        /\ (shape = "sstream" /\ hpc = "returned")
             => UNCHANGED <<hpc, herr, runs, sent, wire, pc>>]_vars
  /\ [](shape = "sstream"
          => /\ \A i \in 1 .. Len(wire) :
                  wire[i] = "send-err"
                    => (i = Len(wire) /\ hpc = "returned" /\ herr = ErrSend)
             /\ runs = Len(wire) + (IF hpc = "run" THEN 1 ELSE 0)
             /\ Len(outcomes) = Len(wire)
             /\ Len(sent) = iter /\ iter <= Max(req.Repeat, 0)
             /\ \A i \in 1 .. Len(sent) :
                  sent[i] = runResponse(req.RequestId, outcomes[i]))

C31_Witness ==
  /\ shape = "sstream" /\ hpc = "returned" /\ herr = ErrSend
  /\ wire = <<"send", "send-err">> /\ runs = 2 /\ Len(sent) = 1
  /\ req.Repeat = 2

\* C32: within one streaming call the Runs are sequential: a Run starts only
\* when no Run and no worker of the call is active, and the counters of a
\* client-streaming call change only in steps of the handler taken while no
\* Run is executing.
C32_RunsAreSequential ==
  /\ [][/\ runs' = runs + 1 => (pc = "idle" /\ wg = 0 /\ ~ctxCreated)
        /\ counts' # counts
             => /\ shape = "cstream"
                /\ (hpc = "recv" /\ pc = "idle") \/ (hpc = "run" /\ pc = "done")
                /\ wg = 0]_vars
  /\ [](shape \in {"sstream", "cstream", "bidi"}
          => /\ hpc = "run" <=> pc # "idle"
             /\ hpc # "run" => (wg = 0 /\ Workers = 0))

C32_Witness ==
  /\ shape = "cstream" /\ hpc = "run" /\ pc = "wait" /\ cpuRunning = 1
  /\ runs = 2 /\ counts = [total |-> 2, success |-> 1, failed |-> 0]

\* C33: in client-streaming a Recv error other than io.EOF makes the handler
\* return that error with no summary; the summary is sent once, and only
\* after io.EOF; failed items alone never make the handler return an error.
C33_SummaryOnlyAfterEOF ==
  shape = "cstream"
    => /\ Len(sent) <= 1
       /\ herr \in {"none", Nil, ErrRecv, ErrSend}
       /\ \A i \in 1 .. Len(wire) :
            /\ wire[i] = "recv-err"
                 => (i = Len(wire) /\ hpc = "returned" /\ herr = ErrRecv /\ sent = <<>>)
            /\ wire[i] \in {"send", "send-err"}
                 => (i = Len(wire) /\ i > 1 /\ wire[i - 1] = "eof" /\ hpc = "returned")
       /\ sent # <<>>
            => (hpc = "returned" /\ herr = Nil /\ wire[Len(wire)] = "send")
       /\ (hpc = "returned" /\ wire[Len(wire)] = "send") => (herr = Nil /\ Len(sent) = 1)
       /\ (hpc = "returned" /\ herr # Nil)
            => wire[Len(wire)] \in {"recv-err", "send-err"}

C33_Witness ==
  /\ shape = "cstream" /\ hpc = "returned" /\ herr = Nil
  /\ Len(recvd) = 2 /\ NumFailed = 2 /\ runs = 1
  /\ sent[1].Failed = 2 /\ sent[1].Success = 0

\* C34: Run does not cancel or alter the caller's context: the context
\* changes only by a cancellation from outside, so that a run that ended
\* through its own deadline leaves it live and the next iteration of a
\* streaming loop is not aborted.
C34_RunLeavesCallerContext ==
  /\ [][/\ parent' # parent
             => (parent = "live" /\ parent' = "cancelled"
                   /\ UNCHANGED <<pc, result, hpc, herr, deadlineFired, cancelled>>)
        /\ (shape = "sstream" /\ hpc = "loop" /\ iter < req.Repeat
              /\ parent = "live" /\ hpc' # hpc)
             => (hpc' = "run" /\ runs' = runs + 1)]_vars
  /\ []((shape = "sstream" /\ hpc = "returned" /\ herr = ErrCanceled)
          => parent = "cancelled")

C34_Witness ==
  /\ shape = "sstream" /\ hpc = "returned" /\ herr = Nil /\ parent = "live"
  /\ req.Repeat = 2 /\ Len(sent) = 2 /\ sent[1].Ok /\ sent[2].Ok

\* C35: when the latency sleep is cut short by the cancellation, Run still
\* evaluates the injector and, when it does not fire, starts the workers of
\* the mode, which find the context done and exit; with errorRate = 1 the
\* run returns ErrInjected.
C35_CutSleepStillInjects ==
  (pc = "done" /\ InLog("wake-ctx"))
    => /\ InLog("decide")
       /\ injected => (result = ErrInjected /\ ~InLog("start") /\ Workers = 0)
       /\ ~injected
            => /\ result = Nil /\ InLog("start") /\ wg = 0
               /\ Workers = CASE cfg.Mode = ModeCPU -> cfg.Parallelism
                              [] cfg.Mode = ModeCPUMem -> cfg.Parallelism + 1
                              [] OTHER -> 1
       /\ FGe(cfg.ErrorRate, FOne) => result = ErrInjected

C35_Witness ==
  /\ pc = "done" /\ InLog("wake-ctx") /\ deadlineFired /\ parent # "cancelled"
  /\ cfg.ErrorRate = FOne /\ result = ErrInjected

\* C40: in every pass of the IO worker the write restarts at offset 0 and
\* goes on in increments of at most chunkSize bytes that sum to ioBytes before
\* the sync, so that the temporary file never exceeds ioBytes bytes; the
\* context is tested before each increment.
C40_WritePassIsBounded ==
  /\ [][/\ (io = "loop" /\ io' = "write")
             => (offset' = 0 /\ remaining' = cfg.IOBytes /\ ~ctxDone)
        /\ offset' > offset
             => /\ io = "write" /\ ~ctxDone
                /\ offset' - offset = Min(remaining, chunkSize)
                /\ offset' - offset \in 1 .. chunkSize
                /\ remaining' = remaining - (offset' - offset)]_vars
  /\ [](io \in {"write", "sync"}
          => /\ offset + remaining = cfg.IOBytes
             /\ remaining >= 0
             /\ io = "sync" => (remaining = 0 /\ offset = cfg.IOBytes))
  /\ [](fileSize <= cfg.IOBytes)

C40_Witness ==
  /\ io = "write" /\ cfg.IOBytes = chunkSize + 1
  /\ offset = chunkSize /\ remaining = 1 /\ fileSize = chunkSize + 1

\* C39: every option set that workConfigFromOptions accepts is accepted by
\* workConfigFromProto with the same mode, and the server-side duration is
\* still > 0, a positive work-duration below one millisecond included.
C39_OptionsRoundTrip ==
  (client.pc = "called" /\ hpc = "returned")
  => /\ outcomes[1] = Nil
     /\ vcfg.Mode = client.opts.WorkMode
     /\ vcfg.Duration > 0

\* C36: a duration_ms above 60 000 (the default 60 s ceiling) never becomes a
\* duration in (0, 60 s] by the conversion to nanoseconds, and the unary call
\* that carries it answers ok = false.
C36_TooLargeDurationRejected ==
  Int64Lt(SixtySecondsMs, wide.ms)
  => /\ wide.pc \in {"translated", "validated", "returned"}
          => ~(Int64Lt(Int64Zero, wide.d) /\ Int64Le(wide.d, SixtySecondsNs))
     /\ wide.pc = "returned" => ~wide.ok

\* Calls of endpoint e at one of the given positions.
CallsAt(e, pcs) ==
  Cardinality({i \in Calls : metrics.calls[i].endpoint = e /\ metrics.calls[i].pc \in pcs})
\* The request counter of e over all codes.
TotalOf(e) ==
  metrics.total[e]["OK"] + metrics.total[e]["Canceled"] + metrics.total[e]["Unknown"]

C37_DuplexTerminates ==
  /\ <>(client.pc = "returned")
  /\ (workConfigFromOptions(client.opts).err = Nil) => <>(hpc = "returned")
  /\ [](hpc = "returned" => herr = Nil)
  /\ [](shape = "bidi"
          => /\ client.received <= client.sent
             /\ client.sent - client.received <= 1
             /\ client.received <= Len(sent))
  /\ []((client.pc = "returned" /\ client.err = Nil)
          => /\ client.sent = client.opts.Repeat
             /\ shape = "bidi" => client.received = client.sent
             /\ shape = "cstream"
                  => /\ Len(client.summary) = 1
                     /\ client.summary[1].Total = client.opts.Repeat)
  /\ [](client.pc = "returned"
          => client.err = workConfigFromOptions(client.opts).err)

\* A bidi call of two requests is over on both sides: the second request was
\* sent after the first response, and the handler returned nil on io.EOF
\* although the client's deferred cancel() has run.
C37_Witness ==
  /\ shape = "bidi" /\ client.pc = "returned" /\ hpc = "returned" /\ herr = Nil
  /\ client.opts.Repeat = 2 /\ client.sent = 2 /\ client.received = 2
  /\ wire = <<"recv", "send", "recv", "send", "eof">>
  /\ parent = "cancelled"

\* A client-streaming call of two requests is over: the summary counts both.
C37_WitnessClientStreaming ==
  /\ shape = "cstream" /\ client.pc = "returned" /\ hpc = "returned"
  /\ client.opts.Repeat = 2 /\ client.summary[1].Total = 2
  /\ client.summary[1].Failed = 2

====
